---- MODULE Spec2Model ----
(***************************************************************************)
(* Verification model of oh-my-notionmcp: the response cache               *)
(* (ReadResponseCache), the fast backend's call path (MCPProxy), the       *)
(* official backend client (BackendClient) and the router                  *)
(* (OhMyNotionRouter).  Each subsystem has its own specification over the  *)
(* shared variables: SpecCache, SpecProxy, SpecRouter, SpecClient,         *)
(* SpecLocal, SpecKey, SpecConfig, SpecSave and SpecWalk.                  *)
(***************************************************************************)
EXTENDS Integers, Sequences, FiniteSets, TLC

(***************************************************************************)
(* Bounds of the model.                                                    *)
(***************************************************************************)
MaxTime == 1
MaxTtl == 1
MaxCap == 1
MaxSaves == 1

Time == 0..MaxTime
Keys == {"k1", "k2"}
Values == {"v1", "v2"}

VARIABLES
  \* ---- ReadResponseCache ----
  entries,      \* this.entries: the Map, as a sequence in insertion order
  ttlMs,        \* this.ttlMs
  maxEntries,   \* this.maxEntries
  file,         \* content of cacheFilePath on disk
  last,         \* the last cache operation: its name, key and return value
  \* ---- history of the cache, for stating the claims ----
  lastSet,      \* the last set(k, v) with no set/delete/clear/load since
  mono,         \* every clock reading so far was >= the one before
  lastNow,      \* the last clock reading (0 once mono is FALSE)
  \* ---- OhMyNotionRouter and its BackendClient ----
  phase,        \* start(): "new", "starting", "serving", or "dead" once it threw
  fastConn,     \* the promise of connectFast(): "pending", "ok", "failed"
  offConn,      \* the promise of connectOfficial(): "connecting", "listing", "ok", "failed"
  fast,         \* this.fast is not null
  official,     \* this.official is not null
  fastTools,    \* the names in the fast adapter's tools
  offTools,     \* the names in the BackendClient's tools / toolMap
  offConnected, \* the BackendClient's current transport reaches a live child
  routes,       \* this.routes
  exposedTools, \* the names in this.exposedTools
  call,         \* the CallTool request being handled
  \* ---- MCPProxy ----
  responseCacheOn,    \* this.responseCache is not null
  localAppCacheOn,    \* this.localAppCache is not null
  persistCacheToDisk, \* this.persistCacheToDisk
  loadPending,        \* the load() started by the constructor has not settled
  savesPending,       \* save() calls started and not yet written
  pcall,              \* the CallTool request the proxy is handling
  \* ---- the official BackendClient, its transports and its callers ----
  spawned,      \* every StdioClientTransport created so far, and its state
  transport,    \* this.transport of the BackendClient: an index in spawned
  officialRef,  \* the router's this.official: "pending", "client", "null";
                \* "exited" once the signal handler has run
  ops,          \* start() and the request handlers: where each one waits
  tokenCache,   \* the files under the token-cache base directory
  raised,       \* per caller: the errors caught and the error it rejected with
  childEnvs,    \* per transport created: the env its child process is given
  parentEnv,    \* process.env of the router
  officialEnv,  \* spec.env of the official backend: the caller's extras
  \* ---- NotionAppSqliteCache ----
  localConfig,  \* parseLocalAppCacheConfig(): the flags and maxPageSize
  blockTable,   \* the block table of the Notion app's database
  localQuery,   \* the last query(): its arguments, the SQL it ran, its result
  \* ---- createCacheKey ----
  keys,         \* the two cache keys built, and what they were built from
  \* ---- parseCacheConfig ----
  fastStartup,  \* the environment of a fast backend and how its proxy started
  \* ---- ReadResponseCache.save() on the file system ----
  saveFs,       \* the save() calls, the files, and the names of the two paths
  \* ---- a client paging through get-block-children ----
  walk          \* the page size, the cursor, the ids taken and the calls made

cacheVars == <<entries, ttlMs, maxEntries, file, last, lastSet, mono, lastNow>>

routerVars == <<phase, fastConn, offConn, fast, official, fastTools, offTools,
                offConnected, routes, exposedTools, call>>

proxyVars == <<responseCacheOn, localAppCacheOn, persistCacheToDisk,
               loadPending, savesPending, pcall>>

clientVars == <<spawned, transport, officialRef, ops, tokenCache, raised,
                childEnvs>>

fnVars == <<localConfig, blockTable, localQuery, keys, parentEnv, officialEnv,
            fastStartup, saveFs, walk>>

vars == <<cacheVars, routerVars, proxyVars, clientVars, fnVars>>

None == [none |-> TRUE]

(***************************************************************************)
(* ReadResponseCache: pure parts.                                          *)
(***************************************************************************)
CacheEntry(k, v, c, u, a) ==
  [key |-> k, value |-> v, createdAt |-> c, updatedAt |-> u, accessedAt |-> a]

\* isExpired, were it wrong: an entry is still fresh at exactly updatedAt + ttlMs
isExpired_FreshAtTtl(entry, ttl, now) == entry.updatedAt + ttl < now

\* private isExpired(entry, now)
isExpired(entry, ttl, now) == entry.updatedAt + ttl <= now

\* Map.get(key): the index of key's entry, 0 when absent
IndexOf(es, k) ==
  IF \E i \in 1..Len(es) : es[i].key = k
  THEN CHOOSE i \in 1..Len(es) : es[i].key = k
  ELSE 0

HasKey(es, k) == IndexOf(es, k) # 0

EntryOf(es, k) == es[IndexOf(es, k)]

\* Map.delete(key)
MapDelete(es, k) == SelectSeq(es, LAMBDA e : e.key # k)

\* Map.set(key, entry): an existing key keeps its position, a new one goes last
MapSet(es, e) ==
  IF HasKey(es, e.key)
  THEN [es EXCEPT ![IndexOf(es, e.key)] = e]
  ELSE Append(es, e)

\* pruneExpired(now)
pruneExpired(es, ttl, now) == SelectSeq(es, LAMBDA e : ~isExpired(e, ttl, now))

\* SortsBefore, were it wrong: the sort is descending, the most recent goes first
SortsBefore_MostRecentFirst(a, b) ==
  \/ a.accessedAt > b.accessedAt
  \/ /\ a.accessedAt = b.accessedAt
     /\ a.updatedAt > b.updatedAt
  \/ /\ a.accessedAt = b.accessedAt
     /\ a.updatedAt = b.updatedAt
     /\ a.createdAt > b.createdAt

\* the comparator of pruneMaxEntries' sort: a before b
SortsBefore(a, b) ==
  \/ a.accessedAt < b.accessedAt
  \/ /\ a.accessedAt = b.accessedAt
     /\ a.updatedAt < b.updatedAt
  \/ /\ a.accessedAt = b.accessedAt
     /\ a.updatedAt = b.updatedAt
     /\ a.createdAt < b.createdAt

\* position of es[i] in the stably sorted array (0-based)
SortedRank(es, i) ==
  Cardinality({j \in 1..Len(es) :
                 \/ SortsBefore(es[j], es[i])
                 \/ (~SortsBefore(es[i], es[j]) /\ j < i)})

RECURSIVE KeepIdx(_, _, _)
KeepIdx(es, i, keep) ==
  IF i > Len(es) THEN <<>>
  ELSE IF i \in keep THEN <<es[i]>> \o KeepIdx(es, i + 1, keep)
  ELSE KeepIdx(es, i + 1, keep)

\* pruneMaxEntries, were it wrong: slice(0, overflow - 1), one entry too few
pruneMaxEntries_OneTooFew(es, cap) ==
  IF Len(es) <= cap THEN es
  ELSE LET overflow == Len(es) - cap
       IN  KeepIdx(es, 1, {i \in 1..Len(es) : SortedRank(es, i) >= overflow - 1})

\* pruneMaxEntries(): delete sortedEntries.slice(0, overflow)
pruneMaxEntries(es, cap) ==
  IF Len(es) <= cap THEN es
  ELSE LET overflow == Len(es) - cap
       IN  KeepIdx(es, 1, {i \in 1..Len(es) : SortedRank(es, i) >= overflow})

\* set, were it wrong: createdAt is stamped on every write
CacheSet_RestampsCreatedAt(es, ttl, cap, k, v, now) ==
  LET put == MapSet(es, CacheEntry(k, v, now, now, now))
      live == pruneExpired(put, ttl, now)
  IN  IF Len(live) > cap THEN pruneMaxEntries(live, cap) ELSE live

\* set(key, value) with now = this.now()
CacheSet(es, ttl, cap, k, v, now) ==
  LET created == IF HasKey(es, k) THEN EntryOf(es, k).createdAt ELSE now
      put == MapSet(es, CacheEntry(k, v, created, now, now))
      live == pruneExpired(put, ttl, now)
  IN  IF Len(live) > cap THEN pruneMaxEntries(live, cap) ELSE live

\* private getEntryIfFresh(key), reading the clock as now: the entries left
FreshEntries(es, ttl, k, now) ==
  IF HasKey(es, k) /\ isExpired(EntryOf(es, k), ttl, now)
  THEN MapDelete(es, k)
  ELSE es

\* private getEntryIfFresh(key): is an entry returned
IsFresh(es, ttl, k, now) ==
  HasKey(es, k) /\ ~isExpired(EntryOf(es, k), ttl, now)

\* get(key): the entries afterwards and the value returned; the clock is
\* read in getEntryIfFresh and again on a hit
CacheGet(es, ttl, k, t1, t2) ==
  IF IsFresh(es, ttl, k, t1)
  THEN [entries |-> [es EXCEPT ![IndexOf(es, k)].accessedAt = t2],
        out |-> EntryOf(es, k).value]
  ELSE [entries |-> FreshEntries(es, ttl, k, t1), out |-> "undefined"]

(***************************************************************************)
(* The cache file.  A JSON value read from disk is modelled with the type  *)
(* of each field, so that deserialize's validation is computed.            *)
(***************************************************************************)
CACHE_FORMAT_VERSION == 1

Num(n) == [type |-> "number", finite |-> TRUE, n |-> n, s |-> ""]
NonFinite == [type |-> "number", finite |-> FALSE, n |-> 0, s |-> ""]
Str(s) == [type |-> "string", finite |-> FALSE, n |-> 0, s |-> s]

\* isFiniteNumber(value)
isFiniteNumber(x) == x.type = "number" /\ x.finite

RawEntry(k, v, c, u, a) ==
  [key |-> k, value |-> v, createdAt |-> c, updatedAt |-> u, accessedAt |-> a]

FileAbsent == [kind |-> "absent", version |-> 0, isArray |-> FALSE, entries |-> <<>>]
FileGarbage == [kind |-> "garbage", version |-> 0, isArray |-> FALSE, entries |-> <<>>]
\* a file readFile cannot read, for a reason other than ENOENT
FileUnreadable ==
  [kind |-> "unreadable", version |-> 0, isArray |-> FALSE, entries |-> <<>>]
FileJson(ver, isArr, es) ==
  [kind |-> "json", version |-> ver, isArray |-> isArr, entries |-> es]

\* private serialize()
RECURSIVE SerializeEntries(_)
SerializeEntries(es) ==
  IF es = <<>> THEN <<>>
  ELSE <<RawEntry(Str(es[1].key), es[1].value, Num(es[1].createdAt),
                  Num(es[1].updatedAt), Num(es[1].accessedAt))>>
       \o SerializeEntries(Tail(es))

serialize(es) == FileJson(CACHE_FORMAT_VERSION, TRUE, SerializeEntries(es))

\* private deserialize(value): the loop over value.entries
RECURSIVE DeserializeEntries(_, _)
DeserializeEntries(raw, acc) ==
  IF raw = <<>> THEN acc
  ELSE LET r == raw[1]
           ok == /\ r.key.type = "string"
                 /\ isFiniteNumber(r.createdAt)
                 /\ isFiniteNumber(r.updatedAt)
                 /\ isFiniteNumber(r.accessedAt)
       IN  DeserializeEntries(Tail(raw),
             IF ok
             THEN MapSet(acc, CacheEntry(r.key.s, r.value, r.createdAt.n,
                                         r.updatedAt.n, r.accessedAt.n))
             ELSE acc)

deserialize(f) ==
  IF f.version # CACHE_FORMAT_VERSION THEN <<>>
  ELSE IF ~f.isArray THEN <<>>
  ELSE DeserializeEntries(f.entries, <<>>)

\* load(), after readFile returned f, with now = this.now() in pruneExpired()
LoadResult(es, ttl, cap, f, now) ==
  IF f.kind \in {"absent", "unreadable"} THEN es
  ELSE IF f.kind = "garbage" THEN <<>>
  ELSE pruneMaxEntries(pruneExpired(deserialize(f), ttl, now), cap)

\* load(), were it wrong: the SyntaxError of JSON.parse is rethrown
loadSettles_RethrowsSyntaxError(f) ==
  IF f.kind \in {"unreadable", "garbage"} THEN "threw" ELSE "void"

\* how the promise of load() settles after readFile returned f: only a
\* readFile error other than ENOENT is rethrown
loadSettles(f) == IF f.kind = "unreadable" THEN "threw" ELSE "void"

\* a file an earlier run saved
FileOfEarlierRun ==
  FileJson(1, TRUE,
    <<RawEntry(Str("k1"), "v1", Num(0), Num(0), Num(0)),
      RawEntry(Str("k2"), "v2", Num(MaxTime), Num(MaxTime), Num(MaxTime))>>)

\* files another process or an earlier run may have left on disk
DiskFiles ==
  { FileAbsent,
    FileGarbage,
    FileUnreadable,
    FileJson(2, TRUE, <<RawEntry(Str("k1"), "v1", Num(0), Num(0), Num(0))>>),
    FileJson(1, FALSE, <<>>),
    FileOfEarlierRun,
    FileJson(1, TRUE,
      <<RawEntry(Num(7), "v1", Num(1), Num(1), Num(1)),
        RawEntry(Str("k1"), "v2", Num(1), Str("x"), Num(1)),
        RawEntry(Str("k2"), "v1", NonFinite, Num(1), Num(1)),
        RawEntry(Str("k2"), "v1", Num(0), Num(1), Num(1)),
        RawEntry(Str("k2"), "v2", Num(1), Num(1), Num(2))>>) }

(***************************************************************************)
(* History helpers.                                                        *)
(***************************************************************************)
\* the clock was read as t
ReadClock(t) ==
  /\ mono' = (mono /\ lastNow <= t)
  /\ lastNow' = IF mono /\ lastNow <= t THEN t ELSE 0

\* the clock was read as t1, then as t2
ReadClock2(t1, t2) ==
  /\ mono' = (mono /\ lastNow <= t1 /\ t1 <= t2)
  /\ lastNow' = IF mono /\ lastNow <= t1 /\ t1 <= t2 THEN t2 ELSE 0

NotLaterThan(es, t) ==
  \A i \in 1..Len(es) :
    es[i].createdAt <= t /\ es[i].updatedAt <= t /\ es[i].accessedAt <= t

(***************************************************************************)
(* ReadResponseCache: the operations.                                      *)
(***************************************************************************)
\* the record of an operation: out is the value returned, dropped tells
\* whether getEntryIfFresh deleted an expired entry
Did(op, k, out, dropped) == [op |-> op, key |-> k, out |-> out, dropped |-> dropped]

CacheInit ==
  /\ entries = <<>>
  /\ ttlMs \in 1..MaxTtl
  /\ maxEntries \in 1..MaxCap
  /\ file \in DiskFiles
  /\ last = Did("new", "", "void", FALSE)
  /\ lastSet = None
  /\ mono = TRUE
  /\ lastNow = 0

\* get, were it wrong: a hit stamps updatedAt as well as accessedAt
Get_HitRefreshesUpdatedAt(k, t1, t2) ==
  /\ IF IsFresh(entries, ttlMs, k, t1)
     THEN /\ entries' = [entries EXCEPT ![IndexOf(entries, k)].accessedAt = t2,
                                        ![IndexOf(entries, k)].updatedAt = t2]
          /\ last' = Did("get", k, EntryOf(entries, k).value, FALSE)
          /\ ReadClock2(t1, t2)
     ELSE /\ entries' = FreshEntries(entries, ttlMs, k, t1)
          /\ last' = Did("get", k, "undefined", HasKey(entries, k))
          /\ ReadClock(t1)
  /\ UNCHANGED <<ttlMs, maxEntries, file, lastSet>>

\* get(key): the clock is read in getEntryIfFresh and again on a hit
Get(k, t1, t2) ==
  /\ IF IsFresh(entries, ttlMs, k, t1)
     THEN /\ entries' = [entries EXCEPT ![IndexOf(entries, k)].accessedAt = t2]
          /\ last' = Did("get", k, EntryOf(entries, k).value, FALSE)
          /\ ReadClock2(t1, t2)
     ELSE /\ entries' = FreshEntries(entries, ttlMs, k, t1)
          /\ last' = Did("get", k, "undefined", HasKey(entries, k))
          /\ ReadClock(t1)
  /\ UNCHANGED <<ttlMs, maxEntries, file, lastSet>>

\* has(key)
Has(k, t) ==
  /\ entries' = FreshEntries(entries, ttlMs, k, t)
  /\ last' = Did("has", k,
                 IF IsFresh(entries, ttlMs, k, t) THEN "true" ELSE "false",
                 HasKey(entries, k) /\ ~IsFresh(entries, ttlMs, k, t))
  /\ ReadClock(t)
  /\ UNCHANGED <<ttlMs, maxEntries, file, lastSet>>

\* set(key, value)
Set(k, v, t) ==
  /\ entries' = CacheSet(entries, ttlMs, maxEntries, k, v, t)
  /\ last' = Did("set", k, "void", FALSE)
  /\ lastSet' = [none |-> FALSE, key |-> k, value |-> v, at |-> t]
  /\ ReadClock(t)
  /\ UNCHANGED <<ttlMs, maxEntries, file>>

\* delete(key)
Delete(k) ==
  /\ entries' = MapDelete(entries, k)
  /\ last' = Did("delete", k, IF HasKey(entries, k) THEN "true" ELSE "false", FALSE)
  /\ lastSet' = None
  /\ UNCHANGED <<ttlMs, maxEntries, file, mono, lastNow>>

\* clear()
Clear ==
  /\ entries' = <<>>
  /\ last' = Did("clear", "", "void", FALSE)
  /\ lastSet' = None
  /\ UNCHANGED <<ttlMs, maxEntries, file, mono, lastNow>>

\* load(): readFile, JSON.parse, deserialize, pruneExpired(), pruneMaxEntries()
Load(t) ==
  /\ entries' = LoadResult(entries, ttlMs, maxEntries, file, t)
  /\ last' = Did("load", "", loadSettles(file), FALSE)
  /\ lastSet' = None
  /\ IF file.kind = "json"
     THEN /\ mono' = (mono /\ lastNow <= t /\ NotLaterThan(entries', t))
          /\ lastNow' = IF mono' THEN t ELSE 0
     ELSE UNCHANGED <<mono, lastNow>>
  /\ UNCHANGED <<ttlMs, maxEntries, file>>

\* save(): pruneExpired(), pruneMaxEntries(), mkdir, serialize(), writeFile to
\* the temp path, rename over the target
Save(t) ==
  /\ entries' = pruneMaxEntries(pruneExpired(entries, ttlMs, t), maxEntries)
  /\ file' = serialize(entries')
  /\ last' = Did("save", "", "void", FALSE)
  /\ ReadClock(t)
  /\ UNCHANGED <<ttlMs, maxEntries, lastSet>>

\* the file is replaced from outside the process
DiskChange ==
  /\ \E f \in DiskFiles : file' = f /\ f # file
  /\ UNCHANGED <<entries, ttlMs, maxEntries, last, lastSet, mono, lastNow>>

CacheNext ==
  \/ \E k \in Keys, t1 \in Time, t2 \in Time :
       Get(k, t1, t2) /\ UNCHANGED <<routerVars, proxyVars, clientVars, fnVars>>
  \/ \E k \in Keys, t \in Time : Has(k, t) /\ UNCHANGED <<routerVars, proxyVars, clientVars, fnVars>>
  \/ \E k \in Keys, v \in Values, t \in Time :
       Set(k, v, t) /\ UNCHANGED <<routerVars, proxyVars, clientVars, fnVars>>
  \/ \E k \in Keys : Delete(k) /\ UNCHANGED <<routerVars, proxyVars, clientVars, fnVars>>
  \/ Clear /\ UNCHANGED <<routerVars, proxyVars, clientVars, fnVars>>
  \/ \E t \in Time : Load(t) /\ UNCHANGED <<routerVars, proxyVars, clientVars, fnVars>>
  \/ \E t \in Time : Save(t) /\ UNCHANGED <<routerVars, proxyVars, clientVars, fnVars>>
  \/ DiskChange /\ UNCHANGED <<routerVars, proxyVars, clientVars, fnVars>>

(***************************************************************************)
(* Router: tool names.  A name is the sequence of its characters, so that  *)
(* normalizeToolName, looksReadTool and looksWriteTool are computed on the *)
(* text of the name.                                                       *)
(***************************************************************************)
T_notion_fetch ==
  <<"n", "o", "t", "i", "o", "n", "-", "f", "e", "t", "c", "h">>
T_notion_create_pages ==
  <<"n", "o", "t", "i", "o", "n", "-", "c", "r", "e", "a", "t", "e", "-", "p", "a", "g", "e", "s">>
T_notion_duplicate_page ==
  <<"n", "o", "t", "i", "o", "n", "-", "d", "u", "p", "l", "i", "c", "a", "t", "e", "-", "p", "a", "g", "e">>
T_API_retrieve_a_page ==
  <<"A", "P", "I", "-", "r", "e", "t", "r", "i", "e", "v", "e", "-", "a", "-", "p", "a", "g", "e">>
T_API_retrieve_a_comment ==
  <<"A", "P", "I", "-", "r", "e", "t", "r", "i", "e", "v", "e", "-", "a", "-", "c", "o", "m", "m", "e", "n", "t">>
T_retrieve_a_page ==
  <<"r", "e", "t", "r", "i", "e", "v", "e", "-", "a", "-", "p", "a", "g", "e">>
T_API_retrieve_a_database ==
  <<"A", "P", "I", "-", "r", "e", "t", "r", "i", "e", "v", "e", "-", "a", "-", "d", "a", "t", "a", "b", "a", "s", "e">>
T_retrieve_a_database ==
  <<"r", "e", "t", "r", "i", "e", "v", "e", "-", "a", "-", "d", "a", "t", "a", "b", "a", "s", "e">>
T_API_retrieve_a_data_source ==
  <<"A", "P", "I", "-", "r", "e", "t", "r", "i", "e", "v", "e", "-", "a", "-", "d", "a", "t", "a", "-", "s", "o", "u", "r", "c", "e">>
T_retrieve_a_data_source ==
  <<"r", "e", "t", "r", "i", "e", "v", "e", "-", "a", "-", "d", "a", "t", "a", "-", "s", "o", "u", "r", "c", "e">>
T_API_retrieve_a_block ==
  <<"A", "P", "I", "-", "r", "e", "t", "r", "i", "e", "v", "e", "-", "a", "-", "b", "l", "o", "c", "k">>
T_retrieve_a_block ==
  <<"r", "e", "t", "r", "i", "e", "v", "e", "-", "a", "-", "b", "l", "o", "c", "k">>
T_retrieve_a_comment ==
  <<"r", "e", "t", "r", "i", "e", "v", "e", "-", "a", "-", "c", "o", "m", "m", "e", "n", "t">>
T_API_post_search ==
  <<"A", "P", "I", "-", "p", "o", "s", "t", "-", "s", "e", "a", "r", "c", "h">>
T_post_search ==
  <<"p", "o", "s", "t", "-", "s", "e", "a", "r", "c", "h">>
T_API_get_user ==
  <<"A", "P", "I", "-", "g", "e", "t", "-", "u", "s", "e", "r">>
T_get_user ==
  <<"g", "e", "t", "-", "u", "s", "e", "r">>
T_API_get_users ==
  <<"A", "P", "I", "-", "g", "e", "t", "-", "u", "s", "e", "r", "s">>
T_get_users ==
  <<"g", "e", "t", "-", "u", "s", "e", "r", "s">>

REAUTH_TOOL_NAME ==
  <<"o", "h", "-", "m", "y", "-", "n", "o", "t", "i", "o", "n", "m", "c", "p", "-", "r", "e", "a", "u", "t", "h">>

\* a name no backend lists
T_no_such_tool ==
  <<"n", "o", "-", "s", "u", "c", "h", "-", "t", "o", "o", "l">>

NoTool == <<>>

READ_HINT_PATTERNS ==
  << <<"f", "e", "t", "c", "h">>,
     <<"s", "e", "a", "r", "c", "h">>,
     <<"q", "u", "e", "r", "y">>,
     <<"r", "e", "t", "r", "i", "e", "v", "e">>,
     <<"r", "e", "a", "d">>,
     <<"g", "e", "t">>,
     <<"l", "i", "s", "t">> >>
WRITE_HINT_PATTERNS ==
  << <<"c", "r", "e", "a", "t", "e">>,
     <<"u", "p", "d", "a", "t", "e">>,
     <<"d", "e", "l", "e", "t", "e">>,
     <<"m", "o", "v", "e">>,
     <<"p", "a", "t", "c", "h">>,
     <<"a", "p", "p", "e", "n", "d">>,
     <<"i", "n", "s", "e", "r", "t">>,
     <<"c", "o", "m", "m", "e", "n", "t">> >>

\* String.prototype.toLowerCase, one character
toLowerCase(c) ==
  CASE c = "A" -> "a"
    [] c = "B" -> "b"
    [] c = "C" -> "c"
    [] c = "D" -> "d"
    [] c = "E" -> "e"
    [] c = "F" -> "f"
    [] c = "G" -> "g"
    [] c = "H" -> "h"
    [] c = "I" -> "i"
    [] c = "J" -> "j"
    [] c = "K" -> "k"
    [] c = "L" -> "l"
    [] c = "M" -> "m"
    [] c = "N" -> "n"
    [] c = "O" -> "o"
    [] c = "P" -> "p"
    [] c = "Q" -> "q"
    [] c = "R" -> "r"
    [] c = "S" -> "s"
    [] c = "T" -> "t"
    [] c = "U" -> "u"
    [] c = "V" -> "v"
    [] c = "W" -> "w"
    [] c = "X" -> "x"
    [] c = "Y" -> "y"
    [] c = "Z" -> "z"
    [] OTHER -> c

\* String.prototype.includes
includes(s, p) ==
  \E i \in 1..(Len(s) - Len(p) + 1) : SubSeq(s, i, i + Len(p) - 1) = p

\* name.toLowerCase().replace(/^notion[-_:]/, '')
normalizeToolName(name) ==
  LET lower == [i \in 1..Len(name) |-> toLowerCase(name[i])]
  IN IF /\ Len(lower) >= 7
        /\ SubSeq(lower, 1, 6) = <<"n", "o", "t", "i", "o", "n">>
        /\ lower[7] \in {"-", "_", ":"}
     THEN SubSeq(lower, 8, Len(lower))
     ELSE lower

looksReadTool(name) ==
  \E i \in 1..Len(READ_HINT_PATTERNS) :
    includes(normalizeToolName(name), READ_HINT_PATTERNS[i])

looksWriteTool(name) ==
  \E i \in 1..Len(WRITE_HINT_PATTERNS) :
    includes(normalizeToolName(name), WRITE_HINT_PATTERNS[i])

\* the tools the official backend may list after a connect, and the tools
\* the fast backend may list
OfficialNames ==
  {T_notion_fetch, T_notion_create_pages, T_notion_duplicate_page,
   T_API_retrieve_a_page, T_API_retrieve_a_comment}
OfficialToolSets ==
  { OfficialNames,
    OfficialNames \ {T_API_retrieve_a_page},
    {T_notion_fetch} }
FastToolSets ==
  { {T_API_retrieve_a_page, T_API_retrieve_a_comment},
    {T_API_retrieve_a_page} }

\* the names a client may ask for
RequestNames == OfficialNames \cup {REAUTH_TOOL_NAME, T_no_such_tool}

(***************************************************************************)
(* Router: arguments and results.                                          *)
(***************************************************************************)
\* arguments: one named id parameter (id "absent" when it is missing or not
\* a string) and whether further keys are present
Args(param, id, extra) == [param |-> param, id |-> id, extra |-> extra]
NoArgs == Args("", "absent", FALSE)

ArgsSet ==
  { Args("id", "absent", FALSE),
    Args("id", "collection://u1", FALSE),
    Args("id", "u1", TRUE) }

\* extractUuidish: the first 32-hex-digit run of the input, else the input
extractUuidish(id) ==
  CASE id = "https://notion.so/page-u1" -> "u1"
    [] OTHER -> id

\* rawId.startsWith('collection://') ? rawId.slice(13) : extractUuidish(rawId)
normalizedId(rawId) ==
  CASE rawId = "collection://u1" -> "u1"
    [] rawId = "collection://x" -> "x"
    [] OTHER -> extractUuidish(rawId)

Request(tool, args) == [tool |-> tool, args |-> args]

\* a ToolResult: who produced it, for which request, its isError flag and
\* what its first text item parses to
ToolResult(from, req, isError, body) ==
  [from |-> from, req |-> req, isError |-> isError, body |-> body]
NoResult == ToolResult("none", Request(NoTool, NoArgs), FALSE, "")

\* what a backend may answer to a call
Answers ==
  { [isError |-> FALSE, body |-> "object"],
    [isError |-> FALSE, body |-> "emptyResults"],
    [isError |-> TRUE, body |-> "object"],
    [isError |-> TRUE, body |-> "emptyResults"] }

isErrorToolResult(result) == result.isError = TRUE

toToolError(message, req) == ToolResult("router", req, TRUE, message)

\* parsed.results / parsed.users / parsed.items is an empty array
looksEmptyReadResult(result) ==
  IF result.isError = TRUE THEN FALSE
  ELSE result.body \in {"emptyResults", "emptyUsers", "emptyItems"}

\* BackendAdapter.findToolName
findToolName(candidates, tools) ==
  LET hits == SelectSeq(candidates, LAMBDA c : c \in tools)
  IN IF hits = <<>> THEN NoTool ELSE Head(hits)

(***************************************************************************)
(* Router: the routing table.                                              *)
(***************************************************************************)
RouteEntry(mode, toolName) == [mode |-> mode, toolName |-> toolName]

\* the names buildRoutingTable walks: official names when the official
\* backend exists, else the fast names that look read-only
allNames_EveryFastTool(hasOfficial, officialTools, fastTools_) ==
  IF hasOfficial THEN officialTools ELSE fastTools_

allNames(hasOfficial, officialTools, fastTools_) ==
  IF hasOfficial
  THEN officialTools
  ELSE {toolName \in fastTools_ :
          looksReadTool(toolName) /\ ~looksWriteTool(toolName)}

boostableOfficialRead(toolName) ==
  normalizeToolName(toolName) \in {<<"f", "e", "t", "c", "h">>,
                                   <<"s", "e", "a", "r", "c", "h">>,
                                   <<"g", "e", "t", "-", "u", "s", "e", "r", "s">>}

\* the mode of a name listed by the official backend, the fast one, or both
routeMode_ReadHintOnly(toolName, officialTool, fastTool) ==
  IF officialTool /\ ~fastTool
  THEN IF boostableOfficialRead(toolName)
       THEN "official-with-fast-boost" ELSE "official"
  ELSE IF ~officialTool /\ fastTool
  THEN "fast-only"
  ELSE IF looksReadTool(toolName)
       THEN "fast-then-official-same-name" ELSE "official"

routeMode(toolName, officialTool, fastTool) ==
  IF officialTool /\ ~fastTool
  THEN IF boostableOfficialRead(toolName)
       THEN "official-with-fast-boost" ELSE "official"
  ELSE IF ~officialTool /\ fastTool
  THEN "fast-only"
  ELSE IF looksReadTool(toolName) /\ ~looksWriteTool(toolName)
       THEN "fast-then-official-same-name" ELSE "official"

\* buildRoutingTable, were it wrong: this.exposedTools is replaced and no
\* route is written
buildRoutingTable_NoRouteWritten(oldRoutes, hasOfficial, offT, hasFast, fastT) ==
  LET officialTools == IF hasOfficial THEN offT ELSE {}
      fastTools_ == IF hasFast THEN fastT ELSE {}
  IN [routes |-> oldRoutes,
      exposedTools |-> {n \in allNames(hasOfficial, officialTools, fastTools_) :
                          n \in officialTools \/ n \in fastTools_}]

\* buildRoutingTable(): this.routes is written with set() for every walked
\* name and is never cleared; this.exposedTools is replaced
buildRoutingTable(oldRoutes, hasOfficial, offT, hasFast, fastT) ==
  LET officialTools == IF hasOfficial THEN offT ELSE {}
      fastTools_ == IF hasFast THEN fastT ELSE {}
      names == {n \in allNames(hasOfficial, officialTools, fastTools_) :
                  n \in officialTools \/ n \in fastTools_}
  IN [routes |->
        [n \in (DOMAIN oldRoutes) \cup names |->
           IF n \in names
           THEN RouteEntry(routeMode(n, n \in officialTools, n \in fastTools_), n)
           ELSE oldRoutes[n]],
      exposedTools |-> names]

(***************************************************************************)
(* Router: the fast calls tryOfficialReadBoost makes, in order.            *)
(***************************************************************************)
tryFastSearch(args, fastT) ==
  LET toolName == findToolName(<<T_API_post_search, T_post_search>>, fastT)
  IN IF toolName = NoTool THEN <<>> ELSE <<Request(toolName, args)>>

tryFastGetUsers(args, fastT) ==
  IF args.param = "user_id" /\ args.id \notin {"absent", ""}
  THEN LET single == findToolName(<<T_API_get_user, T_get_user>>, fastT)
       IN IF single = NoTool THEN <<>> ELSE <<Request(single, args)>>
  ELSE LET many == findToolName(<<T_API_get_users, T_get_users>>, fastT)
       IN IF many = NoTool THEN <<>> ELSE <<Request(many, args)>>

\* FetchCandidates, were it wrong: the comment is tried before the page
FetchCandidates_CommentFirst(id) ==
  << [toolNames |-> <<T_API_retrieve_a_comment, T_retrieve_a_comment>>,
      toolArgs |-> Args("comment_id", id, FALSE)],
     [toolNames |-> <<T_API_retrieve_a_page, T_retrieve_a_page>>,
      toolArgs |-> Args("page_id", id, FALSE)] >>

FetchCandidates(id) ==
  << [toolNames |-> <<T_API_retrieve_a_page, T_retrieve_a_page>>,
      toolArgs |-> Args("page_id", id, FALSE)],
     [toolNames |-> <<T_API_retrieve_a_database, T_retrieve_a_database>>,
      toolArgs |-> Args("database_id", id, FALSE)],
     [toolNames |-> <<T_API_retrieve_a_data_source, T_retrieve_a_data_source>>,
      toolArgs |-> Args("data_source_id", id, FALSE)],
     [toolNames |-> <<T_API_retrieve_a_block, T_retrieve_a_block>>,
      toolArgs |-> Args("block_id", id, FALSE)],
     [toolNames |-> <<T_API_retrieve_a_comment, T_retrieve_a_comment>>,
      toolArgs |-> Args("comment_id", id, FALSE)] >>

tryFastFetch(args, fastT) ==
  IF args.param # "id" \/ args.id = "absent" THEN <<>>
  ELSE IF args.extra THEN <<>>
  ELSE LET candidates == FetchCandidates(normalizedId(args.id))
           found == SelectSeq(candidates,
                      LAMBDA c : findToolName(c.toolNames, fastT) # NoTool)
       IN [i \in 1..Len(found) |->
             Request(findToolName(found[i].toolNames, fastT), found[i].toolArgs)]

tryOfficialReadBoost(toolName, args, hasFast, fastT) ==
  IF ~hasFast THEN <<>>
  ELSE LET normalized == normalizeToolName(toolName)
       IN IF normalized = <<"s", "e", "a", "r", "c", "h">>
          THEN tryFastSearch(args, fastT)
          ELSE IF normalized = <<"g", "e", "t", "-", "u", "s", "e", "r", "s">>
          THEN tryFastGetUsers(args, fastT)
          ELSE IF normalized = <<"f", "e", "t", "c", "h">>
          THEN tryFastFetch(args, fastT)
          ELSE <<>>

(***************************************************************************)
(* Router: one routed call.  call.pc is the await the handler is parked    *)
(* at; fastCalls, offCalls, rpcs, reconnects, closes and creates record    *)
(* what the call has done so far.                                          *)
(***************************************************************************)
IdleCall ==
  [pc |-> "idle", tool |-> NoTool, args |-> NoArgs, mode |-> "none",
   plan |-> <<>>, fastRes |-> NoResult, why |-> "none", result |-> NoResult,
   fastCalls |-> <<>>, offCalls |-> <<>>, rpcs |-> <<>>,
   reconnects |-> 0, closes |-> 0, creates |-> 0, cleared |-> 0,
   rc |-> "none"]

Last(s) == s[Len(s)]

\* the handler returns r
Done(c, r) == [c EXCEPT !.pc = "done", !.result = r]

\* callOfficialOrError up to the first RPC of BackendClient.callTool
callOfficialOrError(c, hasOfficial) ==
  IF ~hasOfficial
  THEN Done(c, toToolError("official backend is unavailable",
                           Request(c.tool, c.args)))
  ELSE [c EXCEPT !.pc = "off_rpc1",
                 !.offCalls = Append(@, Request(c.tool, c.args))]

\* this.fast.callTool(req) is sent
SendFast(c, req) ==
  [c EXCEPT !.pc = "fast", !.fastCalls = Append(@, req)]

\* the handler once a fast call has produced r, were an empty read returned
\* as it is
AfterFast_KeepsEmptyRead(c, r, hasOfficial, offT) ==
  LET c1 == [c EXCEPT !.fastRes = r]
  IN CASE c.mode = "fast-only" -> Done(c1, r)
       [] c.mode = "fast-then-official-same-name" ->
            IF ~isErrorToolResult(r)
            THEN Done(c1, r)
            ELSE IF hasOfficial /\ c.tool \in offT
            THEN callOfficialOrError(c1, hasOfficial)
            ELSE Done(c1, r)
       [] c.mode = "official-with-fast-boost" ->
            IF isErrorToolResult(r) /\ c.plan # <<>>
            THEN SendFast([c1 EXCEPT !.plan = Tail(@)], Head(c.plan))
            ELSE IF ~isErrorToolResult(r) /\ ~looksEmptyReadResult(r)
            THEN Done(c1, r)
            ELSE callOfficialOrError(c1, hasOfficial)
       [] OTHER -> Done(c1, toToolError("Unhandled route mode",
                                        Request(c.tool, c.args)))

\* the handler once a fast call has produced r
\* AfterFast, were it wrong: a boost that gave an empty read is returned
AfterFast_BoostKeepsEmptyRead(c, r, hasOfficial, offT) ==
  LET c1 == [c EXCEPT !.fastRes = r]
  IN CASE c.mode = "fast-only" -> Done(c1, r)
       [] c.mode = "fast-then-official-same-name" ->
            IF ~isErrorToolResult(r) /\ ~looksEmptyReadResult(r)
            THEN Done(c1, r)
            ELSE IF hasOfficial /\ c.tool \in offT
            THEN callOfficialOrError(c1, hasOfficial)
            ELSE Done(c1, r)
       [] c.mode = "official-with-fast-boost" ->
            IF isErrorToolResult(r) /\ c.plan # <<>>
            THEN SendFast([c1 EXCEPT !.plan = Tail(@)], Head(c.plan))
            ELSE IF ~isErrorToolResult(r)
            THEN Done(c1, r)
            ELSE callOfficialOrError(c1, hasOfficial)
       [] OTHER -> Done(c1, toToolError("Unhandled route mode",
                                        Request(c.tool, c.args)))

AfterFast(c, r, hasOfficial, offT) ==
  LET c1 == [c EXCEPT !.fastRes = r]
  IN CASE c.mode = "fast-only" -> Done(c1, r)
       [] c.mode = "fast-then-official-same-name" ->
            IF ~isErrorToolResult(r) /\ ~looksEmptyReadResult(r)
            THEN Done(c1, r)
            ELSE IF hasOfficial /\ c.tool \in offT
            THEN callOfficialOrError(c1, hasOfficial)
            ELSE Done(c1, r)
       [] c.mode = "official-with-fast-boost" ->
            IF isErrorToolResult(r) /\ c.plan # <<>>
            THEN SendFast([c1 EXCEPT !.plan = Tail(@)], Head(c.plan))
            ELSE IF ~isErrorToolResult(r) /\ ~looksEmptyReadResult(r)
            THEN Done(c1, r)
            ELSE callOfficialOrError(c1, hasOfficial)
       [] OTHER -> Done(c1, toToolError("Unhandled route mode",
                                        Request(c.tool, c.args)))

callFastOrError(c, req, hasFast, hasOfficial, offT) ==
  IF ~hasFast
  THEN AfterFast(c, toToolError("fast backend is unavailable", req),
                 hasOfficial, offT)
  ELSE SendFast(c, req)

\* ReconnectThrew, were it wrong: the handler lets the error through and the
\* request is rejected
ReconnectThrew_HandlerRejects(c) == [c EXCEPT !.pc = "threw", !.rc = "failed"]

\* reconnect() threw: callTool rethrows and callOfficialOrError turns it
\* into an error result; handleReauth turns it into "Reauth failed"
ReconnectThrew(c) ==
  IF c.why = "retry"
  THEN Done([c EXCEPT !.rc = "failed"],
            toToolError("official backend call failed", Last(c.offCalls)))
  ELSE Done([c EXCEPT !.rc = "failed"],
            toToolError("Reauth failed", Request(c.tool, c.args)))

\* the RPC re-sent after the reconnect was rejected
RetryRejected_ReconnectsAgain(c) ==
  [c EXCEPT !.pc = "rc_close", !.reconnects = @ + 1]

RetryRejected(c) ==
  Done(c, toToolError("official backend call failed", Last(c.offCalls)))

(***************************************************************************)
(* Router: start().                                                        *)
(***************************************************************************)
RouterInit ==
  /\ phase = "new"
  /\ fastConn = "idle"
  /\ offConn = "idle"
  /\ fast = FALSE
  /\ official = FALSE
  /\ fastTools = {}
  /\ offTools = {}
  /\ offConnected = FALSE
  /\ routes = <<>>
  /\ exposedTools = {}
  /\ call = IdleCall

\* start() runs up to its await of Promise.allSettled
Start ==
  /\ phase = "new"
  /\ phase' = "starting"
  /\ fastConn' = "pending"
  /\ offConn' = "connecting"
  /\ UNCHANGED <<fast, official, fastTools, offTools, offConnected, routes,
                 exposedTools, call>>

\* FastBackendAdapter.create settles
FastCreateSettles(ok, tools) ==
  /\ fastConn = "pending"
  /\ fastConn' = IF ok THEN "ok" ELSE "failed"
  /\ fastTools' = IF ok THEN tools ELSE fastTools
  /\ UNCHANGED <<phase, offConn, fast, official, offTools, offConnected,
                 routes, exposedTools, call>>

\* connectOfficial: client.connect(transport) settles, or the 30 s timer
\* fires first
OfficialConnectSettles(ok) ==
  /\ offConn = "connecting"
  /\ offConn' = IF ok THEN "listing" ELSE "failed"
  /\ offConnected' = ok
  /\ UNCHANGED <<phase, fastConn, fast, official, fastTools, offTools,
                 routes, exposedTools, call>>

\* connectOfficial: client.listTools() settles, or the 30 s timer fires
OfficialListSettles(ok, tools) ==
  /\ offConn = "listing"
  /\ offConn' = IF ok THEN "ok" ELSE "failed"
  /\ offTools' = IF ok THEN tools ELSE offTools
  /\ UNCHANGED <<phase, fastConn, fast, official, fastTools, offConnected,
                 routes, exposedTools, call>>

\* Promise.allSettled resolves once neither promise is pending
allSettled_OnFirstRejection(fc, oc) ==
  \/ fc \in {"ok", "failed"} /\ oc \in {"ok", "failed"}
  \/ fc = "failed"
  \/ oc = "failed"

allSettled(fc, oc) == fc \in {"ok", "failed"} /\ oc \in {"ok", "failed"}

\* start() after the await: it throws when no backend connected, else it
\* builds the routing table and serves
StartSettles ==
  /\ phase = "starting"
  /\ allSettled(fastConn, offConn)
  /\ fast' = (fastConn = "ok")
  /\ official' = (offConn = "ok")
  /\ IF ~fast' /\ ~official'
     THEN /\ phase' = "dead"
          /\ UNCHANGED <<routes, exposedTools>>
     ELSE LET built == buildRoutingTable(routes, official', offTools,
                                         fast', fastTools)
          IN /\ phase' = "serving"
             /\ routes' = built.routes
             /\ exposedTools' = built.exposedTools
  /\ UNCHANGED <<fastConn, offConn, fastTools, offTools, offConnected, call>>

\* the handler when this.routes has no entry for the name, were it wrong:
\* the call is handed to callOfficialOrError
noRoute_AsksOfficial(c, req, hasOfficial) == callOfficialOrError(c, hasOfficial)

\* the handler when this.routes has no entry for the name
noRoute(c, req, hasOfficial) == Done(c, toToolError("Unknown tool", req))

(***************************************************************************)
(* Router: the CallTool handler, one action per await.                     *)
(***************************************************************************)
\* a CallTool request arrives; the handler runs to its first await
CallStart(toolName, args) ==
  /\ phase = "serving"
  /\ call.pc \in {"idle", "done"}
  /\ LET c0 == [IdleCall EXCEPT !.tool = toolName, !.args = args]
         req == Request(toolName, args)
     IN call' =
          IF toolName = REAUTH_TOOL_NAME
          THEN IF ~official
               THEN Done([c0 EXCEPT !.mode = "reauth"],
                         toToolError("Cannot reauth", req))
               ELSE [c0 EXCEPT !.mode = "reauth", !.why = "reauth",
                               !.pc = "ra_close"]
          ELSE IF toolName \notin DOMAIN routes
          THEN noRoute(c0, req, official)
          ELSE LET c1 == [c0 EXCEPT !.mode = routes[toolName].mode]
               IN CASE c1.mode = "official" ->
                         callOfficialOrError(c1, official)
                    [] c1.mode = "official-with-fast-boost" ->
                         LET plan == tryOfficialReadBoost(toolName, args,
                                                          fast, fastTools)
                         IN IF plan = <<>>
                            THEN callOfficialOrError(c1, official)
                            ELSE SendFast([c1 EXCEPT !.plan = Tail(plan)],
                                          Head(plan))
                    [] OTHER ->
                         callFastOrError(c1, req, fast, official, offTools)
  /\ UNCHANGED <<phase, fastConn, offConn, fast, official, fastTools,
                 offTools, offConnected, routes, exposedTools>>

\* this.fast.callTool resolves with an answer
FastReturns(a) ==
  /\ call.pc = "fast"
  /\ call' = AfterFast(call,
                       ToolResult("fast", Last(call.fastCalls), a.isError, a.body),
                       official, offTools)
  /\ UNCHANGED <<phase, fastConn, offConn, fast, official, fastTools,
                 offTools, offConnected, routes, exposedTools>>

\* this.fast.callTool rejects; callFastOrError makes it an error result
FastThrows ==
  /\ call.pc = "fast"
  /\ call' = AfterFast(call,
                       toToolError("fast backend call failed",
                                   Last(call.fastCalls)),
                       official, offTools)
  /\ UNCHANGED <<phase, fastConn, offConn, fast, official, fastTools,
                 offTools, offConnected, routes, exposedTools>>

\* an RPC of BackendClient.callTool (the first or the re-sent one) resolves
OfficialRpcReturns(a) ==
  /\ call.pc \in {"off_rpc1", "off_rpc2"}
  /\ offConnected
  /\ call' = Done([call EXCEPT !.rpcs = Append(@, "ok")],
                  ToolResult("official", Last(call.offCalls),
                             a.isError, a.body))
  /\ UNCHANGED <<phase, fastConn, offConn, fast, official, fastTools,
                 offTools, offConnected, routes, exposedTools>>

\* the first RPC rejects: callTool enters reconnect()
FirstRpcRejects ==
  /\ call.pc = "off_rpc1"
  /\ call' = [call EXCEPT !.rpcs = Append(@, "failed"), !.why = "retry",
                          !.pc = "rc_close", !.reconnects = @ + 1]
  /\ UNCHANGED <<phase, fastConn, offConn, fast, official, fastTools,
                 offTools, offConnected, routes, exposedTools>>

\* the re-sent RPC rejects
RetryRpcRejects ==
  /\ call.pc = "off_rpc2"
  /\ call' = RetryRejected([call EXCEPT !.rpcs = Append(@, "failed")])
  /\ UNCHANGED <<phase, fastConn, offConn, fast, official, fastTools,
                 offTools, offConnected, routes, exposedTools>>

\* reconnect(): transport.close() settles (its error is ignored), then a
\* new Client and a new StdioClientTransport are constructed
ReconnectCloseSettles ==
  /\ call.pc = "rc_close"
  /\ offConnected' = FALSE
  /\ call' = [call EXCEPT !.closes = @ + 1, !.creates = @ + 1,
                          !.pc = "rc_connect"]
  /\ UNCHANGED <<phase, fastConn, offConn, fast, official, fastTools,
                 offTools, routes, exposedTools>>

\* reconnect(): the race of client.connect against the timer settles
ReconnectConnectSettles(ok) ==
  /\ call.pc = "rc_connect"
  /\ offConnected' = ok
  /\ call' = IF ok THEN [call EXCEPT !.pc = "rc_list"]
             ELSE ReconnectThrew(call)
  /\ UNCHANGED <<phase, fastConn, offConn, fast, official, fastTools,
                 offTools, routes, exposedTools>>

\* ReconnectListSettles, were it wrong: handleReauth rebuilds the routing
\* table whether or not reauth() threw
ReconnectListSettles_RebuildsAnyway(ok, tools) ==
  /\ call.pc = "rc_list"
  /\ ok => offConnected
  /\ offTools' = IF ok THEN tools ELSE offTools
  /\ IF call.why = "retry"
     THEN /\ call' = IF ok THEN [call EXCEPT !.rc = "ok", !.pc = "off_rpc2"]
                     ELSE ReconnectThrew(call)
          /\ UNCHANGED <<routes, exposedTools>>
     ELSE LET built == buildRoutingTable(routes, official, tools,
                                         fast, fastTools)
          IN /\ routes' = built.routes
             /\ exposedTools' = built.exposedTools
             /\ call' = IF ok
                        THEN Done([call EXCEPT !.rc = "ok"],
                                  ToolResult("router",
                                             Request(call.tool, call.args),
                                             FALSE, "reauth_triggered"))
                        ELSE ReconnectThrew(call)
  /\ UNCHANGED <<phase, fastConn, offConn, fast, official, fastTools,
                 offConnected>>

\* reconnect(): client.listTools() settles.  In callTool the RPC is then
\* re-sent; in handleReauth the routing table is rebuilt
ReconnectListSettles(ok, tools) ==
  /\ call.pc = "rc_list"
  /\ ok => offConnected
  /\ IF ~ok
     THEN /\ call' = ReconnectThrew(call)
          /\ UNCHANGED <<offTools, routes, exposedTools>>
     ELSE /\ offTools' = tools
          /\ IF call.why = "retry"
             THEN /\ call' = [call EXCEPT !.rc = "ok", !.pc = "off_rpc2"]
                  /\ UNCHANGED <<routes, exposedTools>>
             ELSE LET built == buildRoutingTable(routes, official, tools,
                                                 fast, fastTools)
                  IN /\ routes' = built.routes
                     /\ exposedTools' = built.exposedTools
                     /\ call' = Done([call EXCEPT !.rc = "ok"],
                                     ToolResult("router",
                                                Request(call.tool, call.args),
                                                FALSE, "reauth_triggered"))
  /\ UNCHANGED <<phase, fastConn, offConn, fast, official, fastTools,
                 offConnected>>

\* reauth(): transport.close() settles, the token cache is cleared, and
\* reconnect(120_000) is entered
ReauthCloseSettles ==
  /\ call.pc = "ra_close"
  /\ offConnected' = FALSE
  /\ call' = [call EXCEPT !.closes = @ + 1, !.cleared = @ + 1,
                          !.reconnects = @ + 1, !.pc = "rc_close"]
  /\ UNCHANGED <<phase, fastConn, offConn, fast, official, fastTools,
                 offTools, routes, exposedTools>>

\* the official child process exits or its pipe breaks
OfficialDrops ==
  /\ phase = "serving"
  /\ official
  /\ offConnected
  /\ offConnected' = FALSE
  /\ UNCHANGED <<phase, fastConn, offConn, fast, official, fastTools,
                 offTools, routes, exposedTools, call>>

RouterNext ==
  \/ Start /\ UNCHANGED <<cacheVars, proxyVars, clientVars, fnVars>>
  \/ \E ok \in BOOLEAN, tools \in FastToolSets :
       FastCreateSettles(ok, tools) /\ UNCHANGED <<cacheVars, proxyVars, clientVars, fnVars>>
  \/ \E ok \in BOOLEAN :
       OfficialConnectSettles(ok) /\ UNCHANGED <<cacheVars, proxyVars, clientVars, fnVars>>
  \/ \E ok \in BOOLEAN, tools \in OfficialToolSets :
       OfficialListSettles(ok, tools) /\ UNCHANGED <<cacheVars, proxyVars, clientVars, fnVars>>
  \/ StartSettles /\ UNCHANGED <<cacheVars, proxyVars, clientVars, fnVars>>
  \/ \E toolName \in RequestNames, args \in ArgsSet :
       CallStart(toolName, args) /\ UNCHANGED <<cacheVars, proxyVars, clientVars, fnVars>>
  \/ \E a \in Answers :
       FastReturns(a) /\ UNCHANGED <<cacheVars, proxyVars, clientVars, fnVars>>
  \/ FastThrows /\ UNCHANGED <<cacheVars, proxyVars, clientVars, fnVars>>
  \/ \E a \in Answers :
       OfficialRpcReturns(a) /\ UNCHANGED <<cacheVars, proxyVars, clientVars, fnVars>>
  \/ FirstRpcRejects /\ UNCHANGED <<cacheVars, proxyVars, clientVars, fnVars>>
  \/ RetryRpcRejects /\ UNCHANGED <<cacheVars, proxyVars, clientVars, fnVars>>
  \/ ReconnectCloseSettles /\ UNCHANGED <<cacheVars, proxyVars, clientVars, fnVars>>
  \/ \E ok \in BOOLEAN :
       ReconnectConnectSettles(ok) /\ UNCHANGED <<cacheVars, proxyVars, clientVars, fnVars>>
  \/ \E ok \in BOOLEAN, tools \in OfficialToolSets :
       ReconnectListSettles(ok, tools) /\ UNCHANGED <<cacheVars, proxyVars, clientVars, fnVars>>
  \/ ReauthCloseSettles /\ UNCHANGED <<cacheVars, proxyVars, clientVars, fnVars>>
  \/ OfficialDrops /\ UNCHANGED <<cacheVars, proxyVars, clientVars, fnVars>>


\* one operation of the OpenAPI document: its id and its HTTP method
Operation(operationId, method) == [operationId |-> operationId, method |-> method]
NoOperation == Operation("", "")

\* READ_OPERATION_METHODS: the read operations and the method of each
READ_OPERATION_METHODS ==
  {<<"get-user", "get">>, <<"get-users", "get">>, <<"get-self", "get">>,
   <<"post-search", "post">>, <<"get-block-children", "get">>,
   <<"retrieve-a-block", "get">>, <<"retrieve-a-page", "get">>,
   <<"retrieve-a-page-property", "get">>, <<"retrieve-a-comment", "get">>,
   <<"query-data-source", "post">>, <<"retrieve-a-data-source", "get">>,
   <<"list-data-source-templates", "get">>, <<"retrieve-a-database", "get">>}

\* String.toLowerCase on an HTTP method
methodToLowerCase(method) ==
  CASE method = "GET" -> "get"
    [] method = "POST" -> "post"
    [] method = "PATCH" -> "patch"
    [] OTHER -> method

\* isReadOnlyOperationAllowlisted, were it wrong: the method is not compared
isReadOnlyOperationAllowlisted_AnyMethod(operation) ==
  \E pair \in READ_OPERATION_METHODS : pair[1] = operation.operationId

\* isReadOnlyOperationAllowlisted: the id is on the list with this method
isReadOnlyOperationAllowlisted(operation) ==
  /\ operation.operationId # ""
  /\ operation.method # ""
  /\ <<operation.operationId, methodToLowerCase(operation.method)>>
       \in READ_OPERATION_METHODS

isOperationAllowlisted(operation) == isReadOnlyOperationAllowlisted(operation)

\* the operations of the OpenAPI document: a read on the list, a write, an
\* operation whose id is on the list under another method, and a write whose
\* tool name is longer than a tool name may be
LongOperationId ==
  "update-a-data-source-property-schema-and-all-of-its-select-options"
OpenApiOperations ==
  {Operation("retrieve-a-page", "get"), Operation("patch-page", "patch"),
   Operation("query-data-source", "get"), Operation(LongOperationId, "patch")}

\* convertToMCPTools: one tool, API, with a method per operation, and the
\* lookup from "API-<operation id>" to the operation
ToolNameOf(operationId) == "API-" \o operationId
ConvertedMethods == {o.operationId : o \in OpenApiOperations}
CanonicalNames == {ToolNameOf(id) : id \in ConvertedMethods}
openApiLookup(canonicalName) ==
  CHOOSE o \in OpenApiOperations : ToolNameOf(o.operationId) = canonicalName

\* truncateToolName: at most 64 characters
MaxToolNameLength == 64
truncateToolName(name) ==
  IF Len(name) <= MaxToolNameLength THEN name
  ELSE SubSeq(name, 1, MaxToolNameLength)

\* buildToolNameAliases: a truncated name stands for the one canonical name
\* that truncates to it, and for none when several do
Ambiguous == "null"
toolNameAliases(alias) ==
  LET canonical == {n \in CanonicalNames : truncateToolName(n) = alias}
  IN  IF canonical = {} THEN "undefined"
      ELSE IF Cardinality(canonical) = 1 THEN CHOOSE n \in canonical : TRUE
      ELSE Ambiguous

\* findOperation: by canonical name, else by alias
findOperation(name) ==
  IF name \in CanonicalNames THEN openApiLookup(name)
  ELSE IF toolNameAliases(name) \in {"undefined", Ambiguous} THEN NoOperation
  ELSE openApiLookup(toolNameAliases(name))

\* filterAllowlistedOperations and filterToolDefinitions: the methods of the
\* API tool whose lookup entry is allowlisted
filterToolDefinitions ==
  {id \in ConvertedMethods : isOperationAllowlisted(openApiLookup(ToolNameOf(id)))}

\* the list_tools handler: the truncated name of every kept method
listTools == {truncateToolName(ToolNameOf(id)) : id \in filterToolDefinitions}

\* the names a client may call: every canonical name, every alias, and a
\* name findOperation misses
Operations ==
  CanonicalNames \cup {truncateToolName(n) : n \in CanonicalNames}
    \cup {"no-such-operation"}

\* params: the page asked for and the __mcpFastForceRefresh field, which is
\* absent, a boolean, or the string "true"
ForceFields == {"absent", "boolean true", "string true"}
Params(id, field) == [id |-> id, mcpFastForceRefresh |-> field]
ParamsSet == {Params(id, f) : id \in {"a", "b"}, f \in ForceFields}

\* splitProxyCacheParams, were it wrong: the field stays in the params
splitProxyCacheParams_KeepsField(params) ==
  [sanitizedParams |-> params,
   forceRefresh |-> params.mcpFastForceRefresh = "boolean true"]

\* splitProxyCacheParams: the field is always stripped, into a new object,
\* and counts only when it is a boolean
splitProxyCacheParams(params) ==
  [sanitizedParams |-> Params(params.id, "absent"),
   forceRefresh |-> params.mcpFastForceRefresh = "boolean true"]

\* buildResponseCacheKey: the digest of the operation and of every field of
\* the params it is given; two params get one key only when they are equal
buildResponseCacheKey(operation, sanitizedParams) ==
  (IF sanitizedParams.id = "a" THEN "k1" ELSE "k2")
    \o (CASE sanitizedParams.mcpFastForceRefresh = "absent" -> ""
          [] sanitizedParams.mcpFastForceRefresh = "boolean true" -> "+b"
          [] sanitizedParams.mcpFastForceRefresh = "string true" -> "+s")

\* toMcpToolResponse: the data as the text of an MCP response
toMcpToolResponse(data) ==
  IF data = "d1" THEN "v1" ELSE "v2"

ResponseData == {"d1", "d2"}

\* what localAppCache.query may do
SqliteOutcomes == {"null", "threw", "d1"}
\* what httpClient.executeOperation may do
HttpOutcomes == {"HttpClientError", "threw", "d2"}

Stages == <<"cache", "sqlite", "http">>
StageRank(s) == CHOOSE i \in 1..Len(Stages) : Stages[i] = s

ProxyResult(from, value) == [from |-> from, value |-> value]

\* the call before this one, when it ended in an HttpClientError and the
\* entries were not loaded since
NoPrev == [failed |-> FALSE, key |-> "", forced |-> FALSE]
FailedPrev(c) == [failed |-> TRUE, key |-> c.cacheKey, forced |-> c.forceRefresh]

\* a request being handled.  trace, sqlite, http and cacheOps record what the
\* handler has done: the stages it consulted, what localAppCache.query and
\* executeOperation did, and the calls it made on the response cache; loaded
\* tells that load() replaced the entries while the request was handled;
\* sanitizedParams is what the handler passes to localAppCache.query and to
\* executeOperation
IdleProxyCall ==
  [pc |-> "idle", name |-> "", params |-> Params("a", "absent"),
   cacheKey |-> "", forceRefresh |-> FALSE, trace |-> <<>>,
   sqlite |-> "none", http |-> "none", cacheOps |-> <<>>, prev |-> NoPrev,
   loaded |-> FALSE, listed |-> {}, sanitizedParams |-> Params("a", "absent"),
   result |-> ProxyResult("none", "")]

\* executeOperation resolved with a response (it rejects otherwise)
HttpSucceeded_ErrorsToo(outcome) ==
  outcome \in ResponseData \cup {"HttpClientError"}

HttpSucceeded(outcome) == outcome \in ResponseData

ProxyDone(c, r) == [c EXCEPT !.pc = "done", !.result = r]

\* the handler goes on to httpClient.executeOperation
ToHttp(c) == [c EXCEPT !.pc = "http", !.trace = Append(@, "http")]

\* the handler after the response cache gave no entry (or was not asked):
\* localAppCache.query unless forcing or there is no local app cache
AfterCacheMiss(c, hasLocalAppCache) ==
  IF ~c.forceRefresh /\ hasLocalAppCache
  THEN [c EXCEPT !.pc = "sqlite", !.trace = Append(@, "sqlite")]
  ELSE ToHttp(c)

\* the handler after localAppCache.query settled without data
AfterSqliteMiss_Rethrows(c, outcome) ==
  IF outcome = "threw"
  THEN [c EXCEPT !.pc = "threw", !.sqlite = outcome]
  ELSE ToHttp([c EXCEPT !.sqlite = outcome])

AfterSqliteMiss(c, outcome) == ToHttp([c EXCEPT !.sqlite = outcome])

ProxyInit ==
  /\ responseCacheOn \in BOOLEAN
  /\ localAppCacheOn \in BOOLEAN
  /\ persistCacheToDisk \in BOOLEAN
  /\ loadPending = responseCacheOn
  /\ savesPending = 0
  /\ pcall = IdleProxyCall

\* the load() started by initializeResponseCache settles
ProxyLoadSettles(t) ==
  /\ loadPending
  /\ entries' = LoadResult(entries, ttlMs, maxEntries, file, t)
  /\ loadPending' = FALSE
  /\ UNCHANGED <<ttlMs, maxEntries, file, last, lastSet, mono, lastNow>>
  /\ pcall' = [pcall EXCEPT !.prev = NoPrev, !.loaded = pcall.pc # "idle"]
  /\ UNCHANGED <<responseCacheOn, localAppCacheOn, persistCacheToDisk,
                 savesPending>>

\* a ListTools request arrives and is answered
ProxyListTools ==
  /\ pcall.pc = "idle"
  /\ pcall' = [IdleProxyCall EXCEPT !.pc = "done", !.prev = pcall.prev,
                                    !.result = ProxyResult("list", ""),
                                    !.listed = listTools]
  /\ UNCHANGED <<cacheVars, responseCacheOn, localAppCacheOn,
                 persistCacheToDisk, loadPending, savesPending>>

\* the handler when findOperation gives nothing, were it wrong: an error
\* result is returned
MethodNotFound_ReturnsResult(c) == ProxyDone(c, ProxyResult("blocked", ""))

\* the handler when findOperation gives nothing: it throws
\* Error(`Method ${name} not found`)
MethodNotFound(c) == [c EXCEPT !.pc = "threw"]

\* a CallTool request arrives; the handler runs to its first await
ProxyCallStart(name, params, t1, t2) ==
  /\ pcall.pc = "idle"
  /\ LET operation == findOperation(name)
         split == splitProxyCacheParams(params)
         c0 == [IdleProxyCall EXCEPT
                  !.name = name, !.params = params, !.prev = pcall.prev,
                  !.sanitizedParams = split.sanitizedParams,
                  !.forceRefresh = split.forceRefresh,
                  !.cacheKey = buildResponseCacheKey(operation,
                                                     split.sanitizedParams)]
     IN IF operation = NoOperation
        THEN /\ pcall' = MethodNotFound([c0 EXCEPT !.cacheKey = ""])
             /\ UNCHANGED cacheVars
        ELSE IF ~isOperationAllowlisted(operation)
        THEN /\ pcall' = ProxyDone([c0 EXCEPT !.cacheKey = ""],
                                   ProxyResult("blocked", ""))
             /\ UNCHANGED cacheVars
        ELSE IF ~c0.forceRefresh /\ responseCacheOn
        THEN LET c1 == [c0 EXCEPT !.trace = <<"cache">>, !.cacheOps = <<"get">>]
                 got == CacheGet(entries, ttlMs, c0.cacheKey, t1, t2)
             IN /\ entries' = got.entries
                /\ pcall' = IF got.out # "undefined"
                            THEN ProxyDone(c1, ProxyResult("cache", got.out))
                            ELSE AfterCacheMiss(c1, localAppCacheOn)
                /\ UNCHANGED <<ttlMs, maxEntries, file, last, lastSet, mono,
                               lastNow>>
        ELSE /\ pcall' = AfterCacheMiss(c0, localAppCacheOn)
             /\ UNCHANGED cacheVars
  /\ UNCHANGED <<responseCacheOn, localAppCacheOn, persistCacheToDisk,
                 loadPending, savesPending>>

\* localAppCache.query settles: data is cached and returned, null or an
\* exception sends the handler on to HTTP
ProxySqliteSettles(outcome, t) ==
  /\ pcall.pc = "sqlite"
  /\ IF outcome \in ResponseData
     THEN /\ pcall' = ProxyDone([pcall EXCEPT
                                  !.sqlite = outcome,
                                  !.cacheOps = IF responseCacheOn
                                               THEN Append(@, "set") ELSE @],
                                ProxyResult("sqlite", toMcpToolResponse(outcome)))
          /\ IF responseCacheOn
             THEN /\ entries' = CacheSet(entries, ttlMs, maxEntries,
                                         pcall.cacheKey,
                                         toMcpToolResponse(outcome), t)
                  /\ UNCHANGED <<ttlMs, maxEntries, file, last, lastSet,
                                 mono, lastNow>>
             ELSE UNCHANGED cacheVars
     ELSE /\ pcall' = AfterSqliteMiss(pcall, outcome)
          /\ UNCHANGED cacheVars
  /\ UNCHANGED <<responseCacheOn, localAppCacheOn, persistCacheToDisk,
                 loadPending, savesPending>>

\* httpClient.executeOperation settles.  A response is cached and, when
\* persisting, save() is started: it prunes before its first await
ProxyHttpSettles(outcome, t1, t2) ==
  /\ pcall.pc = "http"
  /\ IF HttpSucceeded(outcome)
     THEN /\ pcall' = ProxyDone([pcall EXCEPT
                                  !.http = outcome,
                                  !.cacheOps = IF responseCacheOn
                                               THEN Append(@, "set") ELSE @],
                                ProxyResult("http", toMcpToolResponse(outcome)))
          /\ IF ~responseCacheOn
             THEN UNCHANGED <<cacheVars, savesPending>>
             ELSE IF ~persistCacheToDisk
             THEN /\ entries' = CacheSet(entries, ttlMs, maxEntries,
                                         pcall.cacheKey,
                                         toMcpToolResponse(outcome), t1)
                  /\ UNCHANGED <<ttlMs, maxEntries, file, last, lastSet,
                                 mono, lastNow, savesPending>>
             ELSE /\ savesPending < MaxSaves
                  /\ entries' =
                       pruneMaxEntries(
                         pruneExpired(
                           CacheSet(entries, ttlMs, maxEntries, pcall.cacheKey,
                                    toMcpToolResponse(outcome), t1),
                           ttlMs, t2),
                         maxEntries)
                  /\ savesPending' = savesPending + 1
                  /\ UNCHANGED <<ttlMs, maxEntries, file, last, lastSet,
                                 mono, lastNow>>
     ELSE /\ pcall' = IF outcome = "HttpClientError"
                      THEN ProxyDone([pcall EXCEPT !.http = outcome],
                                     ProxyResult("httpError", ""))
                      ELSE [pcall EXCEPT !.pc = "threw", !.http = outcome]
          /\ UNCHANGED <<cacheVars, savesPending>>
  /\ UNCHANGED <<responseCacheOn, localAppCacheOn, persistCacheToDisk,
                 loadPending>>

\* a started save() gets past mkdir, serializes the entries as they are
\* then, and writes and renames the file
ProxySaveWrites ==
  /\ savesPending > 0
  /\ file' = serialize(entries)
  /\ savesPending' = savesPending - 1
  /\ UNCHANGED <<entries, ttlMs, maxEntries, last, lastSet, mono, lastNow,
                 responseCacheOn, localAppCacheOn, persistCacheToDisk,
                 loadPending, pcall>>

\* the handler's result, or the error it threw, goes back to the client
ProxyResponds ==
  /\ pcall.pc \in {"done", "threw"}
  /\ pcall' = [IdleProxyCall EXCEPT
                !.prev = IF pcall.result.from = "httpError" /\ ~pcall.loaded
                         THEN FailedPrev(pcall) ELSE NoPrev]
  /\ UNCHANGED <<cacheVars, responseCacheOn, localAppCacheOn,
                 persistCacheToDisk, loadPending, savesPending>>

ProxyNext ==
  \/ \E t \in Time : ProxyLoadSettles(t) /\ UNCHANGED <<routerVars, clientVars, fnVars>>
  \/ ProxyListTools /\ UNCHANGED <<routerVars, clientVars, fnVars>>
  \/ \E name \in Operations, params \in ParamsSet, t1 \in Time, t2 \in Time :
       ProxyCallStart(name, params, t1, t2) /\ UNCHANGED <<routerVars, clientVars, fnVars>>
  \/ \E outcome \in SqliteOutcomes, t \in Time :
       ProxySqliteSettles(outcome, t) /\ UNCHANGED <<routerVars, clientVars, fnVars>>
  \/ \E outcome \in HttpOutcomes, t1 \in Time, t2 \in Time :
       ProxyHttpSettles(outcome, t1, t2) /\ UNCHANGED <<routerVars, clientVars, fnVars>>
  \/ ProxySaveWrites /\ UNCHANGED <<routerVars, clientVars, fnVars>>
  \/ ProxyResponds /\ UNCHANGED <<routerVars, clientVars, fnVars>>

(***************************************************************************)
(* BackendClient: the transports it creates, the callers that wait on it,  *)
(* the deadlines raced against them, and the token cache reauth clears.    *)
(***************************************************************************)
\* the transports a run may create
MaxTransports == 3

\* start() and the two request handlers that may run at once
Handlers == {"h1", "h2"}
Callers == {"start"} \cup Handlers

\* a caller: what it runs (kind), the await it is at (pc), the transport its
\* pending connect or request is on (on), and the timer of the deadline
\* raced against it (timer: "off", "armed", "fired")
Op(kind, pc, on, timer) == [kind |-> kind, pc |-> pc, on |-> on, timer |-> timer]
IdleOp == Op("none", "idle", 0, "off")

\* the callers that are between closing a transport and creating the next
Reconnecting ==
  {p \in Callers : ops[p].pc \in {"rpc1", "rc_close", "ra_close"}}

\* a file of the token cache: its directory under the base directory, the
\* subdirectory it is in (or ""), and its name
TokenFile(dir, sub, name) == [dir |-> dir, sub |-> sub, name |-> name]

OFFICIAL_MCP_URL == "https://mcp.notion.com/mcp"

\* crypto.createHash('md5').update(serverUrl).digest('hex')
md5(serverUrl) ==
  CASE serverUrl = OFFICIAL_MCP_URL -> "abc123def456"
    [] OTHER -> "zzz999other"

\* extractServerUrl(): the URL in the spec's args, else the default
extractServerUrl == OFFICIAL_MCP_URL

startsWith(str, prefix) ==
  Len(str) >= Len(prefix) /\ SubSeq(str, 1, Len(prefix)) = prefix

VersionDirs == {"mcp-remote-0.1.37", "mcp-remote-0.2.0"}
OtherHash == md5("https://example.com/mcp")

\* the files the base directory may hold
TokenFiles ==
  {TokenFile(d, "", md5(OFFICIAL_MCP_URL) \o "_tokens.json") :
     d \in VersionDirs \cup {"mcp-cache"}}
  \cup {TokenFile("mcp-remote-0.1.37", "", md5(OFFICIAL_MCP_URL) \o n) :
          n \in {"_client_info.json", "_code_verifier.txt"}}
  \cup {TokenFile("mcp-remote-0.2.0", md5(OFFICIAL_MCP_URL), "tokens.json"),
        TokenFile("mcp-remote-0.2.0", OtherHash, "tokens.json"),
        TokenFile("mcp-remote-0.1.37", "", OtherHash \o "_tokens.json")}

\* findAndClearTokenCache, were it wrong: every directory is searched
findAndClearTokenCache_AnyDirectory(files, urlHash) ==
  {f \in files :
     ~ \/ f.sub = "" /\ f.name \in {urlHash \o "_tokens.json",
                                   urlHash \o "_client_info.json",
                                   urlHash \o "_code_verifier.txt"}
       \/ f.sub = urlHash /\ f.name = "tokens.json"}

\* findAndClearTokenCache(urlHash): the files left once, in every
\* mcp-remote-* directory of the base, <hash>_tokens.json,
\* <hash>_client_info.json, <hash>_code_verifier.txt and <hash>/tokens.json
\* are unlinked
findAndClearTokenCache(files, urlHash) ==
  {f \in files :
     ~ /\ startsWith(f.dir, "mcp-remote-")
       /\ \/ f.sub = "" /\ f.name \in {urlHash \o "_tokens.json",
                                      urlHash \o "_client_info.json",
                                      urlHash \o "_code_verifier.txt"}
          \/ f.sub = urlHash /\ f.name = "tokens.json"}

\* the errors a caller has met: the one the first callTool rejected with
\* (firstError), the one connect() or reconnect() rejected with
\* (reconnectError), and the message of the error the caller itself rejects
\* with (message); "" where there is none
NoError == [firstError |-> "", reconnectError |-> "", message |-> ""]

\* messages client.callTool, client.connect and client.listTools reject with
CallErrors == {"connection lost", "request timed out"}
ConnectError == "cannot reconnect"
ListError == "tools/list failed"

\* the message of the timer a caller is raced against
TimeoutMessage(p) ==
  IF p = "start" THEN "official backend connect timed out after 30s"
  ELSE IF ops[p].kind = "reauth" THEN "reconnect timed out after 120s"
  ELSE "reconnect timed out after 10s"

\* callTool's catch of reconnectError, were it wrong: the new message drops
\* the reconnect error's text as well
callToolRethrows_NoReconnectText(name, reconnectMessage) ==
  name \o " backend call failed and reconnect also failed"

\* callTool's catch of reconnectError: the message of the Error it throws
callToolRethrows(name, reconnectMessage) ==
  name \o " backend call failed and reconnect also failed: " \o reconnectMessage

\* connect() or reconnect() of caller p has rejected with msg: callTool wraps
\* it, reauth and connectOfficial let it through
Rejected(p, msg) ==
  [raised EXCEPT ![p].reconnectError = msg,
                 ![p].message = IF ops[p].kind = "callTool"
                                THEN callToolRethrows("official", msg)
                                ELSE msg]

\* this.transport.close() is called on the current transport
CloseCurrent(ts, cur) ==
  IF cur = 0 THEN ts ELSE [ts EXCEPT ![cur] = "closed"]

\* a request or connect on transport i can be answered
Answering(i) == i # 0 /\ spawned[i] = "started"

\* SAFE_CHILD_ENV_KEYS
SAFE_CHILD_ENV_KEYS ==
  {"PATH", "HOME", "USER", "USERPROFILE", "TMPDIR", "TMP", "TEMP", "LANG",
   "LC_ALL", "SHELL", "TERM", "SYSTEMROOT", "WINDIR", "APPDATA",
   "LOCALAPPDATA", "MCP_REMOTE_CONFIG_DIR", "HTTP_PROXY", "HTTPS_PROXY",
   "NO_PROXY", "SSL_CERT_FILE", "SSL_CERT_DIR", "NODE_EXTRA_CA_CERTS"}

\* an environment: a value for each variable that is set
NoEnv == [k \in {} |-> ""]

\* childBaseEnv, were it wrong: the whole of process.env is copied
childBaseEnv_WholeEnv(env) == env

\* childBaseEnv(), with process.env = env
childBaseEnv(env) ==
  [k \in {key \in SAFE_CHILD_ENV_KEYS : key \in DOMAIN env} |-> env[k]]

\* buildChildEnv(extra), with process.env = env: { ...childBaseEnv(), ...extra }
buildChildEnv(env, extra) ==
  LET base == childBaseEnv(env)
  IN [k \in DOMAIN base \cup DOMAIN extra |->
        IF k \in DOMAIN extra THEN extra[k] ELSE base[k]]

\* the environments the router may be started in
ParentEnvs ==
  { [k \in {"PATH", "HOME", "MY_SECRET"} |->
       CASE k = "PATH" -> "/usr/bin"
         [] k = "HOME" -> "/tmp/home"
         [] k = "MY_SECRET" -> "should-not-leak"],
    [k \in {"PATH", "HOME", "MY_SECRET", "NOTION_TOKEN"} |->
       CASE k = "PATH" -> "/usr/bin"
         [] k = "HOME" -> "/tmp/home"
         [] k = "MY_SECRET" -> "another"
         [] k = "NOTION_TOKEN" -> "secret_token"],
    [k \in {"PATH", "HTTPS_PROXY"} |->
       CASE k = "PATH" -> "/usr/local/bin"
         [] k = "HTTPS_PROXY" -> "http://proxy:3128"] }

\* the env of the official backend's spec: none, or an extra variable and
\* another PATH
OfficialEnvs ==
  { NoEnv,
    [k \in {"EXTRA_KEY", "PATH"} |->
       CASE k = "EXTRA_KEY" -> "ok"
         [] k = "PATH" -> "/opt/bin"] }

EnvInit ==
  /\ parentEnv \in ParentEnvs
  /\ officialEnv \in OfficialEnvs

ClientInit ==
  /\ spawned = <<>>
  /\ transport = 0
  /\ officialRef = "pending"
  /\ ops = [p \in Callers |-> IdleOp]
  /\ tokenCache \in {TokenFiles, {}}
  /\ raised = [p \in Callers |-> NoError]
  /\ childEnvs = <<>>

\* connectOfficial(): new BackendClient, whose transport is given
\* buildChildEnv(spec.env), client.connect(transport) spawns the child, and
\* the 30 s timer is armed
ConnectOfficialStarts ==
  /\ officialRef = "pending"
  /\ ops["start"].pc = "idle"
  /\ spawned' = <<"started">>
  /\ childEnvs' = <<buildChildEnv(parentEnv, officialEnv)>>
  /\ transport' = 1
  /\ ops' = [ops EXCEPT !["start"] = Op("connect", "connect", 1, "armed")]
  /\ UNCHANGED <<officialRef, tokenCache, raised>>

\* what a caller does once reconnect() or connect() has thrown
Thrown(p, timer) ==
  IF p = "start" THEN Op("connect", "failed", 0, timer) ELSE IdleOp

\* client.connect(transport) settles.  A rejection ends the caller's wait;
\* nothing closes the transport, which the failure may or may not have ended
ConnectSettles(p, ok, after) ==
  /\ ops[p].pc \in {"connect", "rc_connect"}
  /\ officialRef # "exited"
  /\ IF ok
     THEN /\ Answering(ops[p].on)
          /\ after = "started"
          /\ ops' = [ops EXCEPT ![p].pc = IF p = "start" THEN "list" ELSE "rc_list",
                                ![p].on = transport]
          /\ UNCHANGED <<spawned, officialRef, raised>>
     ELSE /\ spawned' = [spawned EXCEPT ![ops[p].on] =
                           IF @ = "started" THEN after ELSE @]
          /\ ops' = [ops EXCEPT ![p] = Thrown(p, "off")]
          /\ officialRef' = IF p = "start" THEN "null" ELSE officialRef
          /\ raised' = Rejected(p, ConnectError)
  /\ UNCHANGED <<transport, tokenCache>>

\* client.listTools() settles.  In connect() it is inside the race of
\* connectOfficial; in reconnect() it is awaited after the race
ListSettles(p, ok) ==
  /\ ops[p].pc \in {"list", "rc_list"}
  /\ officialRef # "exited"
  /\ ok => Answering(ops[p].on)
  /\ IF p = "start"
     THEN /\ ops' = [ops EXCEPT ![p] = IF ok THEN IdleOp ELSE Thrown(p, "off")]
          /\ officialRef' = IF ok THEN "client" ELSE "null"
     ELSE /\ ops' = [ops EXCEPT ![p] =
                       IF ok /\ ops[p].kind = "callTool"
                       THEN Op("callTool", "rpc2", transport, "off")
                       ELSE IdleOp]
          /\ UNCHANGED officialRef
  /\ raised' = IF ok THEN raised ELSE Rejected(p, ListError)
  /\ UNCHANGED <<spawned, transport, tokenCache>>

\* DeadlinePasses, were it wrong: the race of connectOfficial ends with the
\* connect, as the one of reconnect() does
DeadlinePasses_ConnectOnly(p) ==
  /\ ops[p].timer = "armed"
  /\ officialRef # "exited"
  /\ IF ops[p].pc \in {"connect", "rc_connect"}
     THEN /\ ops' = [ops EXCEPT ![p] = Thrown(p, "fired")]
          /\ officialRef' = IF p = "start" THEN "null" ELSE officialRef
          /\ raised' = Rejected(p, TimeoutMessage(p))
     ELSE /\ ops' = [ops EXCEPT ![p].timer = "fired"]
          /\ UNCHANGED <<officialRef, raised>>
  /\ UNCHANGED <<spawned, transport, tokenCache>>

\* the deadline of a caller passes: the race rejects if the caller is still
\* in it
DeadlinePasses(p) ==
  /\ ops[p].timer = "armed"
  /\ officialRef # "exited"
  /\ IF ops[p].pc \in {"connect", "list", "rc_connect"}
     THEN /\ ops' = [ops EXCEPT ![p] = Thrown(p, "fired")]
          /\ officialRef' = IF p = "start" THEN "null" ELSE officialRef
          /\ raised' = Rejected(p, TimeoutMessage(p))
     ELSE /\ ops' = [ops EXCEPT ![p].timer = "fired"]
          /\ UNCHANGED <<officialRef, raised>>
  /\ UNCHANGED <<spawned, transport, tokenCache>>

\* BackendClient.callTool: the request is sent on this.client
CallToolStarts(p) ==
  /\ officialRef = "client"
  /\ ops[p].pc = "idle"
  /\ Len(spawned) + Cardinality(Reconnecting) < MaxTransports
  /\ ops' = [ops EXCEPT ![p] = Op("callTool", "rpc1", transport, "off")]
  /\ raised' = [raised EXCEPT ![p] = NoError]
  /\ UNCHANGED <<spawned, transport, officialRef, tokenCache>>

\* client.callTool settles, rejecting with err unless ok.  When the first
\* one rejects, reconnect() starts and calls this.transport.close(); a
\* rejection of the retry is the caller's
RpcSettles(p, ok, err) ==
  /\ ops[p].pc \in {"rpc1", "rpc2"}
  /\ officialRef # "exited"
  /\ ok => Answering(ops[p].on)
  /\ IF ok \/ ops[p].pc = "rpc2"
     THEN /\ ops' = [ops EXCEPT ![p] = IdleOp]
          /\ raised' = IF ok THEN raised ELSE [raised EXCEPT ![p].message = err]
          /\ UNCHANGED spawned
     ELSE /\ ops' = [ops EXCEPT ![p] = Op("callTool", "rc_close", transport, "off")]
          /\ raised' = [raised EXCEPT ![p].firstError = err]
          /\ spawned' = CloseCurrent(spawned, transport)
  /\ UNCHANGED <<transport, officialRef, tokenCache>>

\* BackendClient.reauth: this.transport.close() is called
ReauthStarts(p) ==
  /\ officialRef = "client"
  /\ ops[p].pc = "idle"
  /\ Len(spawned) + Cardinality(Reconnecting) < MaxTransports
  /\ ops' = [ops EXCEPT ![p] = Op("reauth", "ra_close", transport, "off")]
  /\ spawned' = CloseCurrent(spawned, transport)
  /\ raised' = [raised EXCEPT ![p] = NoError]
  /\ UNCHANGED <<transport, officialRef, tokenCache>>

\* reauth after its close(): the token cache is cleared and reconnect(120 s)
\* starts, calling this.transport.close() again
ReauthClears(p) ==
  /\ ops[p].pc = "ra_close"
  /\ officialRef # "exited"
  /\ tokenCache' = findAndClearTokenCache(tokenCache, md5(extractServerUrl))
  /\ ops' = [ops EXCEPT ![p] = Op("reauth", "rc_close", transport, "off")]
  /\ spawned' = CloseCurrent(spawned, transport)
  /\ UNCHANGED <<transport, officialRef, raised>>

\* reconnect() after its close(): a new Client and a new transport, given
\* buildChildEnv(this.spec.env), replace the fields, the timer is armed and
\* client.connect(transport) spawns the child
ReconnectCreates(p) ==
  /\ ops[p].pc = "rc_close"
  /\ officialRef # "exited"
  /\ spawned' = Append(spawned, "started")
  /\ childEnvs' = Append(childEnvs, buildChildEnv(parentEnv, officialEnv))
  /\ transport' = Len(spawned) + 1
  /\ ops' = [ops EXCEPT ![p].pc = "rc_connect", ![p].on = Len(spawned) + 1,
                        ![p].timer = "armed"]
  /\ UNCHANGED <<officialRef, tokenCache, raised>>

\* SIGINT or SIGTERM once start() has installed the handlers: shutdown()
\* closes this.official, if any, and the process exits
Shutdown ==
  /\ officialRef \in {"client", "null"}
  /\ spawned' = IF officialRef = "client"
                THEN CloseCurrent(spawned, transport) ELSE spawned
  /\ officialRef' = "exited"
  /\ ops' = [p \in Callers |-> IdleOp]
  /\ UNCHANGED <<transport, tokenCache, raised>>

ClientNext ==
  \/ ConnectOfficialStarts /\ UNCHANGED <<cacheVars, routerVars, proxyVars, fnVars>>
  \/ \E p \in Callers, ok \in BOOLEAN, after \in {"started", "closed"} :
       ConnectSettles(p, ok, after)
         /\ UNCHANGED <<cacheVars, routerVars, proxyVars, fnVars,
                        childEnvs>>
  \/ \E p \in Callers, ok \in BOOLEAN :
       ListSettles(p, ok) /\ UNCHANGED <<cacheVars, routerVars, proxyVars, fnVars,
                        childEnvs>>
  \/ \E p \in Callers :
       DeadlinePasses(p) /\ UNCHANGED <<cacheVars, routerVars, proxyVars, fnVars,
                        childEnvs>>
  \/ \E p \in Handlers :
       CallToolStarts(p) /\ UNCHANGED <<cacheVars, routerVars, proxyVars, fnVars,
                        childEnvs>>
  \/ \E p \in Handlers, ok \in BOOLEAN, err \in CallErrors :
       RpcSettles(p, ok, err) /\ UNCHANGED <<cacheVars, routerVars, proxyVars, fnVars,
                        childEnvs>>
  \/ \E p \in Handlers :
       ReauthStarts(p) /\ UNCHANGED <<cacheVars, routerVars, proxyVars, fnVars,
                        childEnvs>>
  \/ \E p \in Handlers :
       ReauthClears(p) /\ UNCHANGED <<cacheVars, routerVars, proxyVars, fnVars,
                        childEnvs>>
  \/ \E p \in Handlers :
       ReconnectCreates(p) /\ UNCHANGED <<cacheVars, routerVars, proxyVars, fnVars>>
  \/ Shutdown /\ UNCHANGED <<cacheVars, routerVars, proxyVars, fnVars,
                        childEnvs>>

(***************************************************************************)
(* NotionAppSqliteCache: the configuration, the ids, the block table and   *)
(* query().                                                                *)
(***************************************************************************)
\* an environment variable that is not set
Unset == "<unset>"

\* what the two flag variables may hold
EnvFlagValues == {Unset, "true", "on", "off", "maybe"}

\* the largest NOTION_MCP_FAST_LOCAL_APP_CACHE_MAX_PAGE_SIZE of a run
MaxPageSize == 2

parseBoolean(value, defaultValue) ==
  IF value = Unset THEN defaultValue
  ELSE IF value \in {"true", "1", "yes", "on"} THEN TRUE
  ELSE IF value \in {"false", "0", "no", "off"} THEN FALSE
  ELSE defaultValue

\* parseLocalAppCacheConfig, were it wrong: the trust flag is not asked for
parseLocalAppCacheConfig_NoTrustGate(enabledEnv, trustEnv, maxPageSize) ==
  [enabled |-> parseBoolean(enabledEnv, FALSE),
   requestedEnabled |-> parseBoolean(enabledEnv, FALSE),
   trustEnabled |-> parseBoolean(trustEnv, FALSE),
   maxPageSize |-> maxPageSize]

parseLocalAppCacheConfig(enabledEnv, trustEnv, maxPageSize) ==
  LET requestedEnabled == parseBoolean(enabledEnv, FALSE)
      trustEnabled == parseBoolean(trustEnv, FALSE)
  IN [enabled |-> requestedEnabled /\ trustEnabled,
      requestedEnabled |-> requestedEnabled,
      trustEnabled |-> trustEnabled,
      maxPageSize |-> maxPageSize]

\* MCPProxy.initializeLocalAppCache: this.localAppCache is not null
initializeLocalAppCache(config) == config.enabled

\* JavaScript null where an id is expected
NoId == ""

HexDigits ==
  {"0", "1", "2", "3", "4", "5", "6", "7", "8", "9",
   "a", "b", "c", "d", "e", "f"}

RECURSIVE trimStart(_)
trimStart(s) ==
  IF s # "" /\ SubSeq(s, 1, 1) = " " THEN trimStart(SubSeq(s, 2, Len(s))) ELSE s

RECURSIVE trimEnd(_)
trimEnd(s) ==
  IF s # "" /\ SubSeq(s, Len(s), Len(s)) = " "
  THEN trimEnd(SubSeq(s, 1, Len(s) - 1)) ELSE s

\* .replace(/-/g, '').toLowerCase()
RECURSIVE compactOf(_)
compactOf(s) ==
  IF s = "" THEN ""
  ELSE LET c == SubSeq(s, 1, 1)
       IN (IF c = "-" THEN "" ELSE toLowerCase(c))
            \o compactOf(SubSeq(s, 2, Len(s)))

\* the dashed lower-case form of a 32-hex-digit id, NoId for anything else
normalizePageOrBlockId(raw) ==
  LET compact == compactOf(trimEnd(trimStart(raw)))
  IN IF Len(compact) = 32
        /\ \A i \in 1..32 : SubSeq(compact, i, i) \in HexDigits
     THEN SubSeq(compact, 1, 8) \o "-" \o SubSeq(compact, 9, 12) \o "-"
            \o SubSeq(compact, 13, 16) \o "-" \o SubSeq(compact, 17, 20)
            \o "-" \o SubSeq(compact, 21, 32)
     ELSE NoId

\* the ids of the parent block and of its children, as the tests have them
ParentId == "312c9946-d64a-80cc-a398-fda09577bfc4"
Child1 == "aaaaaaaa-aaaa-aaaa-aaaa-aaaaaaaaaaaa"
Child2 == "bbbbbbbb-bbbb-bbbb-bbbb-bbbbbbbbbbbb"
Child3 == "cccccccc-cccc-cccc-cccc-cccccccccccc"
\* Child2 as the app may store it in a content array
Child2Compact == "BBBBBBBBBBBBBBBBBBBBBBBBBBBBBBBB"

\* a JSON array column: whether it parses to an array, and its items
JsonArray(items) == [isArray |-> TRUE, items |-> items]
NotAnArray == [isArray |-> FALSE, items |-> <<>>]

\* a row of the block table; properties is "object" when the column parses
\* to an object with a title array, "noTitle" when to an object without
\* one, "invalid" otherwise
BlockRow(id, type, properties, content) ==
  [id |-> id, type |-> type, properties |-> properties, content |-> content]

ChildRow(id, type) == BlockRow(id, type, "noTitle", JsonArray(<<>>))
ParentRow(content) == BlockRow(ParentId, "page", "object", content)

\* the database file: whether it can be read, and the rows of block in
\* meta_last_access_timestamp DESC order
Table(readable, rows) == [readable |-> readable, rows |-> rows]

ThreeChildren ==
  <<ChildRow(Child1, "header"), ChildRow(Child2, "text"),
    ChildRow(Child3, "bulleted_list")>>

BlockTables ==
  { Table(TRUE, <<ParentRow(JsonArray(<<Child1, Child2, Child3>>))>>
                  \o ThreeChildren),
    Table(TRUE, <<ParentRow(JsonArray(<<Child1, Child2Compact, Child3>>))>>
                  \o ThreeChildren),
    Table(TRUE, <<ParentRow(JsonArray(<<Child1, Child2, Child1>>))>>
                  \o ThreeChildren),
    Table(TRUE, <<ParentRow(JsonArray(<<Child1, Child2>>)),
                  ChildRow(Child1, "header")>>),
    Table(TRUE, <<ParentRow(JsonArray(<<Child1, Child2>>)),
                  ChildRow(Child1, ""), ChildRow(Child1, "header"),
                  ChildRow(Child2, "text")>>),
    Table(TRUE, <<ParentRow(JsonArray(<<Child1, "not-an-id">>)),
                  ChildRow(Child1, "header")>>),
    Table(TRUE, <<ParentRow(JsonArray(<<>>))>>),
    Table(TRUE, <<ParentRow(NotAnArray)>>),
    Table(TRUE, <<ChildRow(Child1, "header")>>),
    Table(FALSE, <<>>) }

\* SELECT ... WHERE id = id ORDER BY meta_last_access_timestamp DESC LIMIT 1
selectLatest(rows, id) ==
  LET hits == SelectSeq(rows, LAMBDA r : r.id = id)
  IN IF hits = <<>> THEN <<>> ELSE <<Head(hits)>>

\* SELECT ... WHERE id IN (ids) ORDER BY meta_last_access_timestamp DESC
selectIn(rows, ids) ==
  SelectSeq(rows, LAMBDA r : \E i \in 1..Len(ids) : r.id = ids[i])

\* Array.prototype.indexOf, counted from 1; 0 when absent
indexOf(seq, x) ==
  IF \E i \in 1..Len(seq) : seq[i] = x
  THEN CHOOSE i \in 1..Len(seq) :
         seq[i] = x /\ \A j \in 1..(i - 1) : seq[j] # x
  ELSE 0

\* page_size as the request has it: absent, a number (counted in halves, so
\* that 1 is 0.5 and 4 is 2) or a string
NoPageSize == [type |-> "undefined", halves |-> 0, text |-> ""]
NumberPageSize(halves) == [type |-> "number", halves |-> halves, text |-> ""]
StringPageSize(text) == [type |-> "string", halves |-> 0, text |-> text]

PageSizes ==
  {NoPageSize, StringPageSize("2"), StringPageSize("many")}
    \cup {NumberPageSize(h) : h \in {0, 1, 2, 3, 4, 6}}

NaN == -1

DigitValue(c) ==
  CASE c = "0" -> 0 [] c = "1" -> 1 [] c = "2" -> 2 [] c = "3" -> 3
    [] c = "4" -> 4 [] c = "5" -> 5 [] c = "6" -> 6 [] c = "7" -> 7
    [] c = "8" -> 8 [] c = "9" -> 9 [] OTHER -> NaN

\* Number.parseInt(text, 10) of an unsigned text: its leading digits
RECURSIVE parseDigits(_, _)
parseDigits(text, acc) ==
  IF text = "" \/ DigitValue(SubSeq(text, 1, 1)) = NaN
  THEN acc
  ELSE parseDigits(SubSeq(text, 2, Len(text)),
                   (IF acc = NaN THEN 0 ELSE 10 * acc)
                     + DigitValue(SubSeq(text, 1, 1)))

parseInt(text) == parseDigits(text, NaN)

\* pageSizeRaw, in halves
pageSizeRaw(page_size) ==
  IF page_size.type = "number" THEN page_size.halves
  ELSE IF parseInt(page_size.text) = NaN THEN NaN
  ELSE 2 * parseInt(page_size.text)

Min(a, b) == IF a <= b THEN a ELSE b

\* pageSize, were it wrong: Math.min with maxPageSize is left out
pageSizeOf_NoUpperBound(page_size, maxPageSize) ==
  LET raw == pageSizeRaw(page_size)
  IN IF raw # NaN /\ raw > 0 THEN raw ELSE 2 * maxPageSize

\* pageSize, in halves
pageSizeOf(page_size, maxPageSize) ==
  LET raw == pageSizeRaw(page_size)
  IN IF raw # NaN /\ raw > 0 THEN Min(raw, 2 * maxPageSize)
     ELSE 2 * maxPageSize

\* start_cursor as the request has it
NoCursor == [given |-> FALSE, value |-> ""]
Cursor(value) == [given |-> TRUE, value |-> value]

\* the arguments of a query: the id parameter of the operation (page_id or
\* block_id), page_size and start_cursor
LocalParams(id, page_size, start_cursor) ==
  [id |-> id, page_size |-> page_size, start_cursor |-> start_cursor]

LocalParamsSet ==
  {LocalParams(id, ps, sc) :
     id \in {ParentId, Child1, "not-an-id"},
     ps \in PageSizes,
     sc \in {NoCursor, Cursor(Child1), Cursor(Child2Compact),
             Cursor(Child3), Cursor("not-an-id")}}

\* what query() resolves with: null, a page, a block, or a list of blocks
NullResponse ==
  [object |-> "null", id |-> NoId, type |-> "", results |-> <<>>,
   next_cursor |-> NoId, has_more |-> FALSE]

mapLocalTypeToApiType(localType) ==
  CASE localType = "text" -> "paragraph"
    [] localType = "header" -> "heading_1"
    [] localType = "sub_header" -> "heading_2"
    [] localType = "sub_sub_header" -> "heading_3"
    [] localType = "bulleted_list" -> "bulleted_list_item"
    [] localType = "numbered_list" -> "numbered_list_item"
    [] localType = "page" -> "child_page"
    [] OTHER -> localType

toNotionBlock(row) ==
  [NullResponse EXCEPT !.object = "block", !.id = row.id,
                       !.type = mapLocalTypeToApiType(row.type)]

ListResponse(results, next_cursor, has_more) ==
  [NullResponse EXCEPT !.object = "list", !.type = "block",
                       !.results = results, !.next_cursor = next_cursor,
                       !.has_more = has_more]

\* what a query did: the response and the SQL statements it ran
Answer(response, sql) == [response |-> response, sql |-> sql]

\* a row as retrieveBlock and getBlockChildren accept it
validBlockRow(row, id) ==
  /\ normalizePageOrBlockId(row.id) = id
  /\ trimEnd(trimStart(row.type)) # ""
  /\ row.properties # "invalid"
  /\ row.content.isArray

retrievePage(table, pageId) ==
  LET normalized == normalizePageOrBlockId(pageId)
      rows == selectLatest(SelectSeq(table.rows, LAMBDA r : r.type = "page"),
                           normalized)
  IN IF normalized = NoId THEN Answer(NullResponse, <<>>)
     ELSE IF rows = <<>> THEN Answer(NullResponse, <<"page">>)
     ELSE IF normalizePageOrBlockId(rows[1].id) # normalized
             \/ rows[1].properties # "object"
     THEN Answer(NullResponse, <<"page">>)
     ELSE Answer([NullResponse EXCEPT !.object = "page", !.id = rows[1].id],
                 <<"page">>)

retrieveBlock(table, blockId) ==
  LET normalized == normalizePageOrBlockId(blockId)
      rows == selectLatest(table.rows, normalized)
  IN IF normalized = NoId THEN Answer(NullResponse, <<>>)
     ELSE IF rows = <<>> THEN Answer(NullResponse, <<"block">>)
     ELSE IF ~validBlockRow(rows[1], normalized)
     THEN Answer(NullResponse, <<"block">>)
     ELSE Answer(toNotionBlock(rows[1]), <<"block">>)

\* next_cursor, were it wrong: the first id of the page
nextCursorOf_FirstOfPage(hasMore, pagedChildIds) ==
  IF hasMore THEN pagedChildIds[1] ELSE NoId

\* next_cursor: the last id of the page when more children follow it
nextCursorOf(hasMore, pagedChildIds) ==
  IF hasMore THEN pagedChildIds[Len(pagedChildIds)] ELSE NoId

\* getBlockChildren, were it wrong: a child without a valid row is left out
\* of the page
getBlockChildren_EmitsTheRowsFound(table, params, maxPageSize) ==
  LET normalizedBlockId == normalizePageOrBlockId(params.id)
      parentRows == selectLatest(table.rows, normalizedBlockId)
      parentContent == parentRows[1].content
      childIds == [i \in 1..Len(parentContent.items) |->
                     normalizePageOrBlockId(parentContent.items[i])]
      pageSize == pageSizeOf(params.page_size, maxPageSize)
      startCursor == normalizePageOrBlockId(params.start_cursor.value)
      cursorIndex == indexOf(childIds, startCursor)
      startIndex == IF params.start_cursor.given THEN cursorIndex ELSE 0
      \* slice(startIndex, startIndex + pageSize) truncates its end
      endIndex == Min(startIndex + (pageSize \div 2), Len(childIds))
      pagedChildIds == SubSeq(childIds, startIndex + 1, endIndex)
      childRows == selectIn(table.rows, pagedChildIds)
      latestRow(id) == selectLatest(childRows, id)
      foundIds == SelectSeq(pagedChildIds,
                            LAMBDA id : /\ latestRow(id) # <<>>
                                        /\ validBlockRow(latestRow(id)[1], id))
      orderedRows == [i \in 1..Len(foundIds) |-> latestRow(foundIds[i])[1]]
      hasMore == startIndex + Len(pagedChildIds) < Len(childIds)
      nextCursor == nextCursorOf(hasMore, pagedChildIds)
  IN IF normalizedBlockId = NoId THEN Answer(NullResponse, <<>>)
     ELSE IF parentRows = <<>> THEN Answer(NullResponse, <<"parent">>)
     ELSE IF ~parentContent.isArray THEN Answer(NullResponse, <<"parent">>)
     ELSE IF \E i \in 1..Len(childIds) : childIds[i] = NoId
     THEN Answer(NullResponse, <<"parent">>)
     ELSE IF params.start_cursor.given
             /\ (startCursor = NoId \/ cursorIndex = 0)
     THEN Answer(NullResponse, <<"parent">>)
     ELSE IF pagedChildIds = <<>>
     THEN Answer(ListResponse(<<>>, NoId, FALSE), <<"parent">>)
     ELSE Answer(ListResponse([i \in 1..Len(orderedRows) |->
                                 toNotionBlock(orderedRows[i])],
                              nextCursor, hasMore),
                 <<"parent", "children">>)

getBlockChildren(table, params, maxPageSize) ==
  LET normalizedBlockId == normalizePageOrBlockId(params.id)
      parentRows == selectLatest(table.rows, normalizedBlockId)
      parentContent == parentRows[1].content
      childIds == [i \in 1..Len(parentContent.items) |->
                     normalizePageOrBlockId(parentContent.items[i])]
      pageSize == pageSizeOf(params.page_size, maxPageSize)
      startCursor == normalizePageOrBlockId(params.start_cursor.value)
      cursorIndex == indexOf(childIds, startCursor)
      startIndex == IF params.start_cursor.given THEN cursorIndex ELSE 0
      \* slice(startIndex, startIndex + pageSize) truncates its end
      endIndex == Min(startIndex + (pageSize \div 2), Len(childIds))
      pagedChildIds == SubSeq(childIds, startIndex + 1, endIndex)
      childRows == selectIn(table.rows, pagedChildIds)
      latestRow(id) == selectLatest(childRows, id)
      orderedRows == [i \in 1..Len(pagedChildIds) |->
                        latestRow(pagedChildIds[i])[1]]
      hasMore == startIndex + Len(pagedChildIds) < Len(childIds)
      nextCursor == nextCursorOf(hasMore, pagedChildIds)
  IN IF normalizedBlockId = NoId THEN Answer(NullResponse, <<>>)
     ELSE IF parentRows = <<>> THEN Answer(NullResponse, <<"parent">>)
     ELSE IF ~parentContent.isArray THEN Answer(NullResponse, <<"parent">>)
     ELSE IF \E i \in 1..Len(childIds) : childIds[i] = NoId
     THEN Answer(NullResponse, <<"parent">>)
     ELSE IF params.start_cursor.given
             /\ (startCursor = NoId \/ cursorIndex = 0)
     THEN Answer(NullResponse, <<"parent">>)
     ELSE IF pagedChildIds = <<>>
     THEN Answer(ListResponse(<<>>, NoId, FALSE), <<"parent">>)
     ELSE IF \E i \in 1..Len(pagedChildIds) :
               \/ latestRow(pagedChildIds[i]) = <<>>
               \/ ~validBlockRow(latestRow(pagedChildIds[i])[1],
                                 pagedChildIds[i])
     THEN Answer(NullResponse, <<"parent", "children">>)
     ELSE Answer(ListResponse([i \in 1..Len(orderedRows) |->
                                 toNotionBlock(orderedRows[i])],
                              nextCursor, hasMore),
                 <<"parent", "children">>)

\* the operation ids a query may be made for; "" is an operation without one
LocalOperationIds ==
  {"retrieve-a-page", "retrieve-a-block", "get-block-children",
   "query-data-source", ""}

\* NotionAppSqliteCache.query with the default runner
query(config, table, operationId, params) ==
  IF ~config.enabled \/ operationId = "" THEN Answer(NullResponse, <<>>)
  ELSE IF ~table.readable THEN Answer(NullResponse, <<>>)
  ELSE CASE operationId = "retrieve-a-page" -> retrievePage(table, params.id)
         [] operationId = "retrieve-a-block" -> retrieveBlock(table, params.id)
         [] operationId = "get-block-children" ->
              getBlockChildren(table, params, config.maxPageSize)
         [] OTHER -> Answer(NullResponse, <<>>)

NoLocalQuery ==
  [operationId |-> "", params |-> LocalParams("", NoPageSize, NoCursor),
   childIds |-> <<>>, response |-> NullResponse, sql |-> <<>>, asked |-> FALSE]

\* the child ids in the parent's content, as the query read them
contentIds(table, id) ==
  LET rows == selectLatest(table.rows, normalizePageOrBlockId(id))
  IN IF rows = <<>> THEN <<>>
     ELSE [i \in 1..Len(rows[1].content.items) |->
             normalizePageOrBlockId(rows[1].content.items[i])]

LocalInit ==
  /\ \E enabledEnv \in EnvFlagValues, trustEnv \in EnvFlagValues,
        maxPageSize \in 1..MaxPageSize :
       localConfig = parseLocalAppCacheConfig(enabledEnv, trustEnv, maxPageSize)
  /\ blockTable \in BlockTables
  /\ localQuery = NoLocalQuery

\* the Notion app rewrites its database (a query in progress has read what
\* it has read)
DbChanges(table) ==
  /\ ~localQuery.asked
  /\ table # blockTable
  /\ blockTable' = table
  /\ UNCHANGED <<localConfig, localQuery>>

\* the CallTool handler asks this.localAppCache?.query(operationId, params)
LocalQuery(operationId, params) ==
  /\ ~localQuery.asked
  /\ LET a == IF initializeLocalAppCache(localConfig)
              THEN query(localConfig, blockTable, operationId, params)
              ELSE Answer(NullResponse, <<>>)
     IN localQuery' = [operationId |-> operationId, params |-> params,
                       childIds |-> contentIds(blockTable, params.id),
                       response |-> a.response, sql |-> a.sql,
                       asked |-> TRUE]
  /\ UNCHANGED <<localConfig, blockTable>>

\* the handler has taken the answer
LocalReturns ==
  /\ localQuery.asked
  /\ localQuery' = NoLocalQuery
  /\ UNCHANGED <<localConfig, blockTable>>

LocalNext ==
  \/ LocalReturns /\ UNCHANGED <<cacheVars, routerVars, proxyVars, clientVars, keys,
                      parentEnv, officialEnv, fastStartup,
                        saveFs, walk>>
  \/ \E table \in BlockTables :
       DbChanges(table) /\ UNCHANGED <<cacheVars, routerVars, proxyVars, clientVars, keys,
                      parentEnv, officialEnv, fastStartup,
                        saveFs, walk>>
  \/ \E operationId \in LocalOperationIds, params \in LocalParamsSet :
       LocalQuery(operationId, params)
         /\ UNCHANGED <<cacheVars, routerVars, proxyVars, clientVars, keys,
                      parentEnv, officialEnv, fastStartup,
                        saveFs, walk>>

(***************************************************************************)
(* A client that pages through the children of one block: it calls         *)
(* get-block-children without a cursor and then with start_cursor set to   *)
(* the next_cursor of the answer before.                                   *)
(***************************************************************************)
\* the calls after which a walk is given up
MaxWalkCalls == 4

\* a parent whose content names a child twice in a row
RepeatingTable ==
  Table(TRUE, <<ParentRow(JsonArray(<<Child1, Child1, Child2>>))>> \o ThreeChildren)

WalkTables == BlockTables \cup {RepeatingTable}

IdleWalk ==
  [pc |-> "idle", page_size |-> NoPageSize, cursor |-> NoCursor,
   taken |-> <<>>, calls |-> 0]

\* the ids of a list of blocks
idsOf(results) == [i \in 1..Len(results) |-> results[i].id]

\* the configurations a walk is made under: trusted, enabled or not
WalkConfigs ==
  {parseLocalAppCacheConfig(enabledEnv, "true", maxPageSize) :
     enabledEnv \in {"true", "off"}, maxPageSize \in 1..MaxPageSize}

\* the cursors a walk may hold: none, or an id a response gave
WalkCursors == {NoCursor} \cup {Cursor(id) : id \in {Child1, Child2, Child3}}

\* what this.localAppCache?.query('get-block-children', ...) resolves with,
\* for every request a walk can make
childrenAnswers ==
  [config \in WalkConfigs, table \in WalkTables, ps \in PageSizes,
   cursor \in WalkCursors |->
     IF initializeLocalAppCache(config)
     THEN query(config, table, "get-block-children",
                LocalParams(ParentId, ps, cursor)).response
     ELSE NullResponse]

WalkInit ==
  /\ localConfig \in WalkConfigs
  /\ blockTable \in WalkTables
  /\ localQuery = NoLocalQuery
  /\ walk = IdleWalk

\* the walk after its next call, made with page size ps: a null answer
\* sends the client to HTTP, a list is taken and its next_cursor kept
walkAfter(w, config, table, ps) ==
  LET r == childrenAnswers[config, table, ps, w.cursor]
  IN IF r.object # "list"
     THEN [w EXCEPT !.pc = "declined", !.page_size = ps, !.calls = @ + 1]
     ELSE [pc |-> IF r.has_more THEN "walking" ELSE "done",
           page_size |-> ps,
           cursor |-> IF r.has_more THEN Cursor(r.next_cursor) ELSE NoCursor,
           taken |-> w.taken \o idsOf(r.results),
           calls |-> w.calls + 1]

\* the next call of the walk, the first one with the page_size chosen for
\* the walk
WalkCalls(page_size) ==
  /\ walk.pc \in {"idle", "walking"}
  /\ walk.calls < MaxWalkCalls
  /\ walk' = walkAfter(walk, localConfig, blockTable,
                       IF walk.pc = "idle" THEN page_size ELSE walk.page_size)
  /\ UNCHANGED <<localConfig, blockTable, localQuery>>

\* the client is done with the walk
WalkEnds ==
  /\ walk.pc \in {"done", "declined"}
  /\ walk' = IdleWalk
  /\ UNCHANGED <<localConfig, blockTable, localQuery>>

\* the Notion app rewrites its database between two walks
WalkDbChanges(table) ==
  /\ walk.pc = "idle"
  /\ table # blockTable
  /\ blockTable' = table
  /\ UNCHANGED <<localConfig, localQuery, walk>>

\* the client makes the next call of its walk
WalkGoesOn ==
  \E page_size \in PageSizes :
    WalkCalls(page_size)
      /\ UNCHANGED <<cacheVars, routerVars, proxyVars, clientVars, keys,
                     parentEnv, officialEnv, fastStartup, saveFs>>

WalkNext ==
  \/ WalkGoesOn
  \/ WalkEnds
       /\ UNCHANGED <<cacheVars, routerVars, proxyVars, clientVars, keys,
                      parentEnv, officialEnv, fastStartup, saveFs>>
  \/ \E table \in WalkTables :
       WalkDbChanges(table)
         /\ UNCHANGED <<cacheVars, routerVars, proxyVars, clientVars, keys,
                        parentEnv, officialEnv, fastStartup, saveFs>>

(***************************************************************************)
(* createCacheKey: parameter trees, deterministicStringify, and the keys   *)
(* MCPProxy builds from them.                                              *)
(***************************************************************************)
\* a JSON value: its type, the text of a scalar, and the members of an array
\* (k is "") or of an object, in the order the object holds its keys
JStr(v) == [t |-> "string", v |-> v, kids |-> <<>>]
JNum(v) == [t |-> "number", v |-> v, kids |-> <<>>]
JNull == [t |-> "null", v |-> "null", kids |-> <<>>]
Member(k, n) == [k |-> k, n |-> n]
JArr(items) ==
  [t |-> "array", v |-> "", kids |-> [i \in 1..Len(items) |-> Member("", items[i])]]
JObj(members) == [t |-> "object", v |-> "", kids |-> members]

\* the characters of the keys and values below, in UTF-16 code unit order
CodeUnits ==
  "\"-/0123456789:ABCDEFGHIJKLMNOPQRSTUVWXYZ\\_abcdefghijklmnopqrstuvwxyz{|}"

charCode(c) ==
  CHOOSE i \in 1..Len(CodeUnits) : SubSeq(CodeUnits, i, i) = c

\* a < b as Array.prototype.sort() compares strings
RECURSIVE sortsBefore(_, _)
sortsBefore(a, b) ==
  IF a = "" THEN b # ""
  ELSE IF b = "" THEN FALSE
  ELSE LET ca == charCode(SubSeq(a, 1, 1))
           cb == charCode(SubSeq(b, 1, 1))
       IN IF ca # cb THEN ca < cb
          ELSE sortsBefore(SubSeq(a, 2, Len(a)), SubSeq(b, 2, Len(b)))

\* Object.keys(objectValue), were it wrong: the keys are left as they are
sortedMembers_Unsorted(members) == members

\* Object.keys(objectValue).sort(): the members in key order
RECURSIVE sortedMembers(_)
sortedMembers(members) ==
  IF members = <<>> THEN <<>>
  ELSE LET least == CHOOSE i \in 1..Len(members) :
                      \A j \in 1..Len(members) :
                        j # i => sortsBefore(members[i].k, members[j].k)
       IN <<members[least]>>
            \o sortedMembers(SubSeq(members, 1, least - 1)
                               \o SubSeq(members, least + 1, Len(members)))

\* the characters of a string as JSON.stringify writes them
RECURSIVE escaped(_)
escaped(s) ==
  IF s = "" THEN ""
  ELSE LET c == SubSeq(s, 1, 1)
       IN (IF c = "\"" THEN "\\\"" ELSE IF c = "\\" THEN "\\\\" ELSE c)
            \o escaped(SubSeq(s, 2, Len(s)))

quoted(s) == "\"" \o escaped(s) \o "\""

RECURSIVE joined(_)
joined(parts) ==
  IF parts = <<>> THEN ""
  ELSE IF Len(parts) = 1 THEN parts[1]
  ELSE parts[1] \o "," \o joined(Tail(parts))

RECURSIVE serializeDeterministic(_)
serializeDeterministic(value) ==
  CASE value.t = "string" -> quoted(value.v)
    [] value.t \in {"number", "null"} -> value.v
    [] value.t = "array" ->
         "[" \o joined([i \in 1..Len(value.kids) |->
                          serializeDeterministic(value.kids[i].n)]) \o "]"
    [] value.t = "object" ->
         LET ordered == sortedMembers(value.kids)
         IN "{" \o joined([i \in 1..Len(ordered) |->
                             quoted(ordered[i].k) \o ":"
                               \o serializeDeterministic(ordered[i].n)])
              \o "}"

deterministicStringify(value) == serializeDeterministic(value)

\* createHash('sha256').update(payload).digest('hex'): a digest that two
\* payloads share only when they are equal
sha256(payload) == "sha256(" \o payload \o ")"

LowerLetters == "abcdefghijklmnopqrstuvwxyz"
UpperLetters == "ABCDEFGHIJKLMNOPQRSTUVWXYZ"

RECURSIVE toUpperCase(_)
toUpperCase(s) ==
  IF s = "" THEN ""
  ELSE LET c == SubSeq(s, 1, 1)
           up == IF \E i \in 1..26 : SubSeq(LowerLetters, i, i) = c
                 THEN LET i == CHOOSE i \in 1..26 : SubSeq(LowerLetters, i, i) = c
                      IN SubSeq(UpperLetters, i, i)
                 ELSE c
       IN up \o toUpperCase(SubSeq(s, 2, Len(s)))

\* a CacheKeyOperation; operationId "" is one that is missing
CacheKeyOperation(method, path, operationId) ==
  [method |-> method, path |-> path, operationId |-> operationId]

createCacheKey(operation, params) ==
  LET method == toUpperCase(operation.method)
      payload ==
        deterministicStringify(
          JObj(<<Member("operation",
                        JObj(<<Member("method", JStr(method)),
                               Member("path", JStr(operation.path)),
                               Member("operationId",
                                      IF operation.operationId = "" THEN JNull
                                      ELSE JStr(operation.operationId))>>)),
                 Member("params", params)>>))
  IN "openapi-cache:v1:" \o method \o ":" \o operation.path \o ":"
       \o (IF operation.operationId = "" THEN "-" ELSE operation.operationId)
       \o ":" \o sha256(payload)

\* the operations of the calls below
KeyOperations ==
  {CacheKeyOperation("post", "/search", "post-search"),
   CacheKeyOperation("POST", "/search", "post-search"),
   CacheKeyOperation("post", "/search", "query-data-source"),
   CacheKeyOperation("get", "/search", "")}

\* the parameter trees of the calls below
TagsNotionApi == JArr(<<JStr("notion"), JStr("api")>>)
TagsApiNotion == JArr(<<JStr("api"), JStr("notion")>>)

ParamTrees ==
  { JObj(<<Member("pageSize", JNum("10")),
           Member("filter", JObj(<<Member("status", JStr("active")),
                                   Member("tags", TagsNotionApi)>>))>>),
    JObj(<<Member("filter", JObj(<<Member("tags", TagsNotionApi),
                                   Member("status", JStr("active"))>>)),
           Member("pageSize", JNum("10"))>>),
    JObj(<<Member("pageSize", JNum("20")),
           Member("filter", JObj(<<Member("status", JStr("active")),
                                   Member("tags", TagsNotionApi)>>))>>),
    JObj(<<Member("pageSize", JNum("10")),
           Member("filter", JObj(<<Member("status", JStr("active")),
                                   Member("tags", TagsApiNotion)>>))>>),
    JObj(<<Member("pageSize", JStr("10")),
           Member("filter", JObj(<<Member("status", JStr("active")),
                                   Member("tags", TagsNotionApi)>>))>>),
    JObj(<<Member("pageSize", JNum("10")),
           Member("status", JStr("active")),
           Member("filter", JObj(<<Member("tags", TagsNotionApi)>>))>>),
    JObj(<<>>),
    JObj(<<Member("b", JStr("c\",\"query\":\"a"))>>),
    JObj(<<Member("query", JStr("a")), Member("b", JStr("c"))>>),
    JObj(<<Member("b", JStr("c")), Member("query", JStr("a"))>>),
    JObj(<<Member("query", JNull)>>),
    JObj(<<Member("query", JStr("null"))>>) }

\* the headers of OPENAPI_MCP_HEADERS (or of NOTION_TOKEN): an object of
\* strings
Header(k, v) == Member(k, JStr(v))

HeaderSets ==
  { <<Header("Authorization", "Bearer A"), Header("Notion-Version", "2025-09-03")>>,
    <<Header("Authorization", "Bearer B"), Header("Notion-Version", "2025-09-03")>>,
    <<Header("Authorization", "Bearer A"), Header("Notion-Version", "2022-06-28")>>,
    <<Header("authorization", "Bearer A"), Header("notion-version", "2025-09-03")>>,
    <<Header("AUTHORIZATION", "Bearer A"), Header("Notion-Version", "2025-09-03")>>,
    <<Header("AUTHORIZATION", "Bearer B"), Header("Notion-Version", "2025-09-03")>>,
    <<>> }

BaseUrls == {"https://api.notion.com", "https://proxy.example.com"}

\* headers[name] ?? fallback
headerOr(headers, name, fallback) ==
  LET hits == SelectSeq(headers, LAMBDA h : h.k = name)
  IN IF hits = <<>> THEN fallback ELSE Last(hits).n.v

\* buildAuthFingerprint, were it wrong: the API version is left out
buildAuthFingerprint_NoVersion(headers) ==
  sha256(headerOr(headers, "Authorization",
                  headerOr(headers, "authorization", "")) \o "|")

buildAuthFingerprint(headers) ==
  LET authorization == headerOr(headers, "Authorization",
                                headerOr(headers, "authorization", ""))
      notionVersion == headerOr(headers, "Notion-Version",
                                headerOr(headers, "notion-version", ""))
  IN sha256(authorization \o "|" \o notionVersion)

CACHE_CONTEXT_KEY == "__mcpFastContext"

\* the spread, were it wrong: { [key]: value, ...params }, a member of params
\* with that key wins
spreadWith_ParamsWin(params, key, value) ==
  IF \E i \in 1..Len(params.kids) : params.kids[i].k = key
  THEN params
  ELSE JObj(<<Member(key, value)>> \o params.kids)

\* { ...params, [key]: value }: the key keeps its place when params has it,
\* and is added last otherwise
spreadWith(params, key, value) ==
  IF \E i \in 1..Len(params.kids) : params.kids[i].k = key
  THEN JObj([i \in 1..Len(params.kids) |->
               IF params.kids[i].k = key THEN Member(key, value)
               ELSE params.kids[i]])
  ELSE JObj(Append(params.kids, Member(key, value)))

\* MCPProxy.buildResponseCacheKey of a proxy constructed with these headers
\* and this base URL
responseCacheKeyOf(headers, baseUrl, operation, params) ==
  createCacheKey(
    operation,
    spreadWith(params, CACHE_CONTEXT_KEY,
               JObj(<<Member("authFingerprint",
                             JStr(buildAuthFingerprint(headers))),
                      Member("baseUrl", JStr(baseUrl))>>)))

\* the two keys built: by what (createCacheKey or two proxies), from
\* which operations, trees, headers and base URLs, and the keys
NoKeys ==
  [by |-> "none",
   operation |-> <<CacheKeyOperation("", "", ""), CacheKeyOperation("", "", "")>>,
   params |-> <<JNull, JNull>>, headers |-> <<<<>>, <<>>>>,
   baseUrl |-> <<"", "">>, key |-> <<"", "">>]

KeyInit == keys = NoKeys

\* createCacheKey is called for two operations and two parameter trees
CreateCacheKeys(op1, p1, op2, p2) ==
  /\ keys.by = "none"
  /\ keys' = [NoKeys EXCEPT !.by = "createCacheKey",
                         !.operation = <<op1, op2>>, !.params = <<p1, p2>>,
                            !.key = <<createCacheKey(op1, p1),
                                      createCacheKey(op2, p2)>>]

\* two proxies, each constructed with its headers and base URL, build the
\* key of the same operation and parameters
BuildResponseCacheKeys(h1, u1, h2, u2, op, p) ==
  /\ keys.by = "none"
  /\ keys' = [NoKeys EXCEPT !.by = "buildResponseCacheKey",
                         !.operation = <<op, op>>, !.params = <<p, p>>,
                         !.headers = <<h1, h2>>, !.baseUrl = <<u1, u2>>,
                         !.key = <<responseCacheKeyOf(h1, u1, op, p),
                                   responseCacheKeyOf(h2, u2, op, p)>>]

\* the sanitized parameters of the calls of one proxy
CallParamTrees ==
  { JObj(<<>>),
    JObj(<<Member(CACHE_CONTEXT_KEY, JStr("x"))>>),
    JObj(<<Member(CACHE_CONTEXT_KEY, JObj(<<Member("baseUrl", JStr("y"))>>))>>),
    JObj(<<Member("query", JStr("a"))>>),
    JObj(<<Member("query", JStr("a")), Member(CACHE_CONTEXT_KEY, JStr("x"))>>),
    JObj(<<Member(CACHE_CONTEXT_KEY, JStr("x")), Member("query", JStr("b"))>>) }

\* one proxy handles two calls: the handler builds the key of each from the
\* operation and the sanitized parameters it forwards
CallKeys(h, u, op1, p1, op2, p2) ==
  /\ keys.by = "none"
  /\ keys' = [NoKeys EXCEPT !.by = "callTool",
                            !.operation = <<op1, op2>>, !.params = <<p1, p2>>,
                            !.headers = <<h, h>>, !.baseUrl = <<u, u>>,
                            !.key = <<responseCacheKeyOf(h, u, op1, p1),
                                      responseCacheKeyOf(h, u, op2, p2)>>]

KeyNext ==
  \/ \E h \in {<<>>, <<Header("Authorization", "Bearer A")>>}, u \in BaseUrls,
        op1 \in KeyOperations, op2 \in KeyOperations,
        p1 \in CallParamTrees, p2 \in CallParamTrees :
       CallKeys(h, u, op1, p1, op2, p2)
         /\ UNCHANGED <<cacheVars, routerVars, proxyVars, clientVars,
                        localConfig, blockTable, localQuery,
                        parentEnv, officialEnv, fastStartup,
                        saveFs, walk>>
  \/ \E op1 \in KeyOperations, op2 \in KeyOperations,
        p1 \in ParamTrees, p2 \in ParamTrees :
       CreateCacheKeys(op1, p1, op2, p2)
         /\ UNCHANGED <<cacheVars, routerVars, proxyVars, clientVars,
                        localConfig, blockTable, localQuery,
                        parentEnv, officialEnv, fastStartup,
                        saveFs, walk>>
  \/ \E h1 \in HeaderSets, h2 \in HeaderSets, u1 \in BaseUrls, u2 \in BaseUrls,
        op \in KeyOperations, p \in ParamTrees :
       BuildResponseCacheKeys(h1, u1, h2, u2, op, p)
         /\ UNCHANGED <<cacheVars, routerVars, proxyVars, clientVars,
                        localConfig, blockTable, localQuery,
                        parentEnv, officialEnv, fastStartup,
                        saveFs, walk>>

(***************************************************************************)
(* parseCacheConfig and MCPProxy.initializeResponseCache: the response     *)
(* cache configuration a fast backend starts with.                         *)
(***************************************************************************)
CACHE_ENABLED_ENV == "NOTION_MCP_FAST_CACHE_ENABLED"
CACHE_TTL_MS_ENV == "NOTION_MCP_FAST_CACHE_TTL_MS"
CACHE_MAX_ENTRIES_ENV == "NOTION_MCP_FAST_CACHE_MAX_ENTRIES"
CACHE_PATH_ENV == "NOTION_MCP_FAST_CACHE_PATH"

\* stands for the character U+0000 in a path
NullByte == "<NUL>"

\* DEFAULT_CACHE_CONFIG
DEFAULT_CACHE_CONFIG ==
  [enabled |-> TRUE, ttlMs |-> 30000, maxEntries |-> 300,
   path |-> "~/.cache/oh-my-notionmcp/read-cache-v1.json"]

\* what a parse function does: it returns a value or throws a message
Returned(value) == [threw |-> FALSE, value |-> value, message |-> ""]
Threw(message) == [threw |-> TRUE, value |-> "", message |-> message]

RECURSIVE lowerCased(_)
lowerCased(s) ==
  IF s = "" THEN ""
  ELSE LET c == SubSeq(s, 1, 1)
           low == IF \E i \in 1..26 : SubSeq(UpperLetters, i, i) = c
                  THEN LET i == CHOOSE i \in 1..26 : SubSeq(UpperLetters, i, i) = c
                       IN SubSeq(LowerLetters, i, i)
                  ELSE c
       IN low \o lowerCased(SubSeq(s, 2, Len(s)))

\* parseBooleanEnv, were it wrong: a value that is no boolean word gives the
\* default
parseBooleanEnv_FallsBack(name, rawValue, defaultValue) ==
  LET normalized == lowerCased(trimEnd(trimStart(rawValue)))
  IN IF rawValue = Unset THEN Returned(defaultValue)
     ELSE IF normalized \in {"1", "true", "yes", "on"} THEN Returned(TRUE)
     ELSE IF normalized \in {"0", "false", "no", "off"} THEN Returned(FALSE)
     ELSE Returned(defaultValue)

parseBooleanEnv(name, rawValue, defaultValue) ==
  LET normalized == lowerCased(trimEnd(trimStart(rawValue)))
  IN IF rawValue = Unset THEN Returned(defaultValue)
     ELSE IF normalized = "" THEN Returned(defaultValue)
     ELSE IF normalized \in {"1", "true", "yes", "on"} THEN Returned(TRUE)
     ELSE IF normalized \in {"0", "false", "no", "off"} THEN Returned(FALSE)
     ELSE Threw(name \o " must be one of: 1, true, yes, on, 0, false, no, off. Received \""
                  \o rawValue \o "\".")

\* Number(trimmed), for a text of digits with or without a sign or any other
\* text that is no number or no integer: whether it is an integer, and which
NumberOf(text) ==
  LET negative == text # "" /\ SubSeq(text, 1, 1) = "-"
      digits == IF negative THEN SubSeq(text, 2, Len(text)) ELSE text
      allDigits == digits # "" /\ \A i \in 1..Len(digits) :
                                    DigitValue(SubSeq(digits, i, i)) # NaN
  IN IF allDigits
     THEN [integer |-> TRUE,
           n |-> IF negative THEN 0 - parseInt(digits) ELSE parseInt(digits)]
     ELSE [integer |-> FALSE, n |-> 0]

parsePositiveIntegerEnv(name, rawValue, defaultValue) ==
  LET trimmed == trimEnd(trimStart(rawValue))
      parsed == NumberOf(trimmed)
  IN IF rawValue = Unset THEN Returned(defaultValue)
     ELSE IF trimmed = "" THEN Returned(defaultValue)
     ELSE IF ~parsed.integer \/ parsed.n <= 0
       THEN Threw(name \o " must be a positive integer. Received \""
                    \o rawValue \o "\".")
     ELSE Returned(parsed.n)

\* parseOptionalPathEnv: Unset is the undefined it returns
parseOptionalPathEnv(name, rawValue) ==
  LET trimmed == trimEnd(trimStart(rawValue))
  IN IF rawValue = Unset THEN Returned(Unset)
     ELSE IF trimmed = "" THEN Returned(Unset)
     ELSE IF includes(trimmed, NullByte)
       THEN Threw(name \o " must not contain a null byte.")
     ELSE Returned(trimmed)

\* the four variables of an environment
CacheEnv(enabledRaw, ttlRaw, maxRaw, pathRaw) ==
  [enabled |-> enabledRaw, ttlMs |-> ttlRaw, maxEntries |-> maxRaw,
   path |-> pathRaw]

\* parseCacheConfig(env): the fields are parsed in the order of the object
\* literal, and the first throw ends it
parseCacheConfig(env) ==
  LET enabledField == parseBooleanEnv(CACHE_ENABLED_ENV, env.enabled,
                                      DEFAULT_CACHE_CONFIG.enabled)
      ttlField == parsePositiveIntegerEnv(CACHE_TTL_MS_ENV, env.ttlMs,
                                          DEFAULT_CACHE_CONFIG.ttlMs)
      maxField == parsePositiveIntegerEnv(CACHE_MAX_ENTRIES_ENV, env.maxEntries,
                                          DEFAULT_CACHE_CONFIG.maxEntries)
      pathField == parseOptionalPathEnv(CACHE_PATH_ENV, env.path)
  IN IF enabledField.threw THEN enabledField
     ELSE IF ttlField.threw THEN ttlField
     ELSE IF maxField.threw THEN maxField
     ELSE IF pathField.threw THEN pathField
     ELSE Returned([enabled |-> enabledField.value, ttlMs |-> ttlField.value,
                    maxEntries |-> maxField.value,
                    path |-> IF pathField.value = Unset
                             THEN DEFAULT_CACHE_CONFIG.path
                             ELSE pathField.value])

\* no ReadResponseCache: the null of initializeResponseCache
NoResponseCache == [on |-> FALSE, ttlMs |-> 0, maxEntries |-> 0, path |-> ""]

\* initializeResponseCache(): the cache the proxy gets, what was warned, and
\* what was thrown to the caller of the constructor
initializeResponseCache(env) ==
  LET cacheConfig == parseCacheConfig(env)
  IN IF cacheConfig.threw
     THEN [cache |-> NoResponseCache, warned |-> cacheConfig.message, thrown |-> ""]
     ELSE IF ~cacheConfig.value.enabled
     THEN [cache |-> NoResponseCache, warned |-> "", thrown |-> ""]
     ELSE [cache |-> [on |-> TRUE, ttlMs |-> cacheConfig.value.ttlMs,
                      maxEntries |-> cacheConfig.value.maxEntries,
                      path |-> cacheConfig.value.path],
           warned |-> "", thrown |-> ""]

\* what the four variables may hold
EnabledTexts == {Unset, "", "true", " ON ", "off", "0", "maybe", "2"}
TtlTexts == {Unset, " ", "60000", "0", "-1", "1.5", "soon"}
MaxEntriesTexts == {Unset, "500", "0", "many"}
PathTexts == {Unset, " /tmp/my-cache.json ", "/tmp/cache" \o NullByte \o "evil"}

\* a fast backend that has not been constructed, in an environment
NotStarted(env) ==
  [env |-> env, ran |-> FALSE, constructed |-> FALSE, cache |-> NoResponseCache,
   warned |-> "", thrown |-> "", parsed |-> Returned("")]

ConfigInit ==
  \E enabledRaw \in EnabledTexts, ttlRaw \in TtlTexts,
     maxRaw \in MaxEntriesTexts, pathRaw \in PathTexts :
    fastStartup = NotStarted(CacheEnv(enabledRaw, ttlRaw, maxRaw, pathRaw))

\* new MCPProxy(...): the constructor calls initializeResponseCache(); parsed
\* keeps what parseCacheConfig did in it
ConstructProxy ==
  /\ ~fastStartup.ran
  /\ LET made == initializeResponseCache(fastStartup.env)
     IN fastStartup' = [fastStartup EXCEPT !.ran = TRUE,
                                           !.constructed = made.thrown = "",
                                           !.cache = made.cache,
                                           !.warned = made.warned,
                                           !.thrown = made.thrown,
                                           !.parsed = parseCacheConfig(fastStartup.env)]

ConfigNext ==
  ConstructProxy
    /\ UNCHANGED <<cacheVars, routerVars, proxyVars, clientVars, localConfig,
                   blockTable, localQuery, keys, parentEnv, officialEnv,
                   saveFs, walk>>

(***************************************************************************)
(* ReadResponseCache.save() on the file system: the save() calls of one    *)
(* process, each await a step of its own.  All of them use the temp path   *)
(* cacheFilePath.<pid>.tmp.                                                *)
(***************************************************************************)
\* the save() calls a run may make
SaveIds == {"s1", "s2"}

\* the longest payload, in blocks
MaxBlocks == 2

\* no inode: the path does not exist
NoInode == 0

\* the content the target path had before the run
PreviousContent == <<"previous">>

\* JSON.stringify(payload) of save s: blocks of its own
Payload(s, blocks) == [i \in 1..blocks |-> s]

\* a write of data at offset 0 of a file holding content
writtenOver(content, data) ==
  data \o SubSeq(content, Len(data) + 1, Len(content))

IdleSave == [pc |-> "idle", fd |-> NoInode, blocks |-> 0]

\* the saves between their open of the temp path and their rename
InWindow(ss) == {s \in SaveIds : ss[s].pc \in {"write", "rename"}}

SaveInit ==
  \E before \in {<<>>, <<PreviousContent>>} :
    saveFs = [saves |-> [s \in SaveIds |-> IdleSave],
              inodes |-> before,
              target |-> Len(before),
              temp |-> NoInode,
              overlapped |-> FALSE]

\* the handler of a tool call runs `void this.responseCache?.save()`: save()
\* prunes and awaits mkdir
SaveStarts(s) ==
  /\ saveFs.saves[s].pc = "idle"
  /\ saveFs' = [saveFs EXCEPT !.saves[s].pc = "mkdir"]

\* mkdir settles: serialize() and JSON.stringify make the payload, and
\* writeFile(tempPath) is started
MkdirSettles(s, blocks) ==
  /\ saveFs.saves[s].pc = "mkdir"
  /\ saveFs' = [saveFs EXCEPT !.saves[s].pc = "open",
                              !.saves[s].blocks = blocks]

\* writeFile, were it wrong: the target path itself is opened
OpensTemp_OpensTarget(s) ==
  /\ saveFs.saves[s].pc = "open"
  /\ IF saveFs.target = NoInode
     THEN saveFs' = [saveFs EXCEPT !.inodes = Append(@, <<>>),
                                   !.target = Len(saveFs.inodes) + 1,
                                   !.saves[s].fd = Len(saveFs.inodes) + 1,
                                   !.saves[s].pc = "write"]
     ELSE saveFs' = [saveFs EXCEPT !.inodes[saveFs.target] = <<>>,
                                   !.saves[s].fd = saveFs.target,
                                   !.saves[s].pc = "write"]

\* writeFile opens the temp path with flag 'w': the file is created, or the
\* file that has the name is truncated
OpensTemp(s) ==
  /\ saveFs.saves[s].pc = "open"
  /\ IF saveFs.temp = NoInode
     THEN saveFs' = [saveFs EXCEPT !.inodes = Append(@, <<>>),
                                   !.temp = Len(saveFs.inodes) + 1,
                                   !.saves[s].fd = Len(saveFs.inodes) + 1,
                                   !.saves[s].pc = "write",
                                   !.overlapped = @ \/ InWindow(saveFs.saves) # {}]
     ELSE saveFs' = [saveFs EXCEPT !.inodes[saveFs.temp] = <<>>,
                                   !.saves[s].fd = saveFs.temp,
                                   !.saves[s].pc = "write",
                                   !.overlapped = @ \/ InWindow(saveFs.saves) # {}]

\* writeFile writes the payload to the file it opened and closes it
WritesTemp(s) ==
  /\ saveFs.saves[s].pc = "write"
  /\ saveFs' = [saveFs EXCEPT
                  !.inodes[saveFs.saves[s].fd] =
                     writtenOver(@, Payload(s, saveFs.saves[s].blocks)),
                  !.saves[s].pc = "rename"]

\* rename(tempPath, cacheFilePath): the name of the target is given the file
\* of the temp path; with no temp path it fails, save() rejects and the
\* handler's catch warns
Renames(s) ==
  /\ saveFs.saves[s].pc = "rename"
  /\ IF saveFs.temp = NoInode
     THEN saveFs' = [saveFs EXCEPT !.saves[s].pc = "failed"]
     ELSE saveFs' = [saveFs EXCEPT !.target = saveFs.temp,
                                   !.temp = NoInode,
                                   !.saves[s].pc = "chmod"]

\* chmod(cacheFilePath, 0o600) settles, its error ignored
ChmodSettles(s) ==
  /\ saveFs.saves[s].pc = "chmod"
  /\ saveFs' = [saveFs EXCEPT !.saves[s].pc = "done"]

SaveNext ==
  \/ \E s \in SaveIds :
       SaveStarts(s)
         /\ UNCHANGED <<cacheVars, routerVars, proxyVars, clientVars, localConfig,
                        blockTable, localQuery, keys, parentEnv, officialEnv,
                        fastStartup, walk>>
  \/ \E s \in SaveIds, blocks \in 1..MaxBlocks :
       MkdirSettles(s, blocks)
         /\ UNCHANGED <<cacheVars, routerVars, proxyVars, clientVars, localConfig,
                        blockTable, localQuery, keys, parentEnv, officialEnv,
                        fastStartup, walk>>
  \/ \E s \in SaveIds :
       OpensTemp(s)
         /\ UNCHANGED <<cacheVars, routerVars, proxyVars, clientVars, localConfig,
                        blockTable, localQuery, keys, parentEnv, officialEnv,
                        fastStartup, walk>>
  \/ \E s \in SaveIds :
       WritesTemp(s)
         /\ UNCHANGED <<cacheVars, routerVars, proxyVars, clientVars, localConfig,
                        blockTable, localQuery, keys, parentEnv, officialEnv,
                        fastStartup, walk>>
  \/ \E s \in SaveIds :
       Renames(s)
         /\ UNCHANGED <<cacheVars, routerVars, proxyVars, clientVars, localConfig,
                        blockTable, localQuery, keys, parentEnv, officialEnv,
                        fastStartup, walk>>
  \/ \E s \in SaveIds :
       ChmodSettles(s)
         /\ UNCHANGED <<cacheVars, routerVars, proxyVars, clientVars, localConfig,
                        blockTable, localQuery, keys, parentEnv, officialEnv,
                        fastStartup, walk>>

(***************************************************************************)
(* The specifications.  Each one runs one subsystem from its constructed   *)
(* state and leaves the others as constructed.                             *)
(***************************************************************************)
ClientUnused ==
  /\ spawned = <<>>
  /\ transport = 0
  /\ officialRef = "pending"
  /\ ops = [p \in Callers |-> IdleOp]
  /\ tokenCache = {}
  /\ raised = [p \in Callers |-> NoError]
  /\ childEnvs = <<>>

FnUnused ==
  /\ localConfig = parseLocalAppCacheConfig(Unset, Unset, 1)
  /\ blockTable = Table(FALSE, <<>>)
  /\ localQuery = NoLocalQuery
  /\ keys = NoKeys

EnvUnused ==
  /\ parentEnv = NoEnv
  /\ officialEnv = NoEnv

ConfigUnused ==
  /\ fastStartup = NotStarted(CacheEnv(Unset, Unset, Unset, Unset))
  /\ saveFs = [saves |-> [s \in SaveIds |-> IdleSave], inodes |-> <<>>,
               target |-> NoInode, temp |-> NoInode, overlapped |-> FALSE]
  /\ walk = IdleWalk

CacheUnused ==
  /\ entries = <<>>
  /\ ttlMs = 1
  /\ maxEntries = 1
  /\ file = FileAbsent
  /\ last = Did("new", "", "void", FALSE)
  /\ lastSet = None
  /\ mono = TRUE
  /\ lastNow = 0

ProxyUnused ==
  /\ responseCacheOn = FALSE
  /\ localAppCacheOn = FALSE
  /\ persistCacheToDisk = FALSE
  /\ loadPending = FALSE
  /\ savesPending = 0
  /\ pcall = IdleProxyCall

InitCache ==
  CacheInit /\ RouterInit /\ ProxyUnused /\ ClientUnused /\ FnUnused
    /\ EnvUnused /\ ConfigUnused
SpecCache == InitCache /\ [][CacheNext]_vars

InitRouter ==
  CacheUnused /\ RouterInit /\ ProxyUnused /\ ClientUnused /\ FnUnused
    /\ EnvUnused /\ ConfigUnused
SpecRouter == InitRouter /\ [][RouterNext]_vars

InitProxy ==
  /\ CacheInit /\ file \in {FileAbsent, FileOfEarlierRun}
  /\ RouterInit /\ ProxyInit /\ ClientUnused /\ FnUnused /\ EnvUnused
  /\ ConfigUnused
SpecProxy == InitProxy /\ [][ProxyNext]_vars

InitLocal ==
  /\ CacheUnused /\ RouterInit /\ ProxyUnused /\ ClientUnused /\ LocalInit
  /\ keys = NoKeys
  /\ EnvUnused
  /\ ConfigUnused
SpecLocal == InitLocal /\ [][LocalNext]_vars

InitKey ==
  /\ CacheUnused /\ RouterInit /\ ProxyUnused /\ ClientUnused
  /\ localConfig = parseLocalAppCacheConfig(Unset, Unset, 1)
  /\ blockTable = Table(FALSE, <<>>)
  /\ localQuery = NoLocalQuery
  /\ KeyInit
  /\ EnvUnused
  /\ ConfigUnused
SpecKey == InitKey /\ [][KeyNext]_vars

InitConfig ==
  CacheUnused /\ RouterInit /\ ProxyUnused /\ ClientUnused /\ FnUnused
    /\ EnvUnused /\ ConfigInit
    /\ saveFs = [saves |-> [s \in SaveIds |-> IdleSave], inodes |-> <<>>,
                 target |-> NoInode, temp |-> NoInode, overlapped |-> FALSE]
    /\ walk = IdleWalk
SpecConfig == InitConfig /\ [][ConfigNext]_vars

InitSave ==
  CacheUnused /\ RouterInit /\ ProxyUnused /\ ClientUnused /\ FnUnused
    /\ EnvUnused /\ fastStartup = NotStarted(CacheEnv(Unset, Unset, Unset, Unset))
    /\ SaveInit /\ walk = IdleWalk
SpecSave == InitSave /\ [][SaveNext]_vars

InitWalk ==
  CacheUnused /\ RouterInit /\ ProxyUnused /\ ClientUnused /\ keys = NoKeys
    /\ EnvUnused /\ fastStartup = NotStarted(CacheEnv(Unset, Unset, Unset, Unset))
    /\ saveFs = [saves |-> [s \in SaveIds |-> IdleSave], inodes |-> <<>>,
                 target |-> NoInode, temp |-> NoInode, overlapped |-> FALSE]
    /\ WalkInit
SpecWalk ==
  InitWalk /\ [][WalkNext]_vars
    /\ WF_vars(WalkGoesOn)

InitClient ==
  CacheUnused /\ RouterInit /\ ProxyUnused /\ ClientInit /\ FnUnused
    /\ EnvInit /\ ConfigUnused
SpecClient == InitClient /\ [][ClientNext]_vars

(***************************************************************************)
(* Claims about ReadResponseCache.                                         *)
(***************************************************************************)
\* this step is set(k, v) reading the clock as t
SetStep(k, v, t) == last'.op = "set" /\ Set(k, v, t)

\* this step is get(k) reading the clock as t1 and, on a hit, as t2
GetStep(k, t1, t2) == last'.op = "get" /\ Get(k, t1, t2)

\* this step is has(k) reading the clock as t
HasStep(k, t) == last'.op = "has" /\ Has(k, t)

\* C6: immediately after every set() returns, whatever the clock reads and
\* whatever get/has/set/delete/clear/load/save came before, the number of
\* stored entries is at most maxEntries.
C6_SizeAtMostMaxAfterSet ==
  [][\A k \in Keys, v \in Values, t \in Time :
       SetStep(k, v, t) => Len(entries') <= maxEntries]_vars

\* C6 witness: a set() has just returned and left the cache exactly full.
C6_Witness ==
  /\ last.op = "set"
  /\ Len(entries) = maxEntries
  /\ ~HasKey(entries, "k1")

\* C7 as claimed: (a) the entry written by set(k, v) is still there, with
\* value v, when that set() returns; (b) a get(k) at t' with
\* t <= t' < t + ttlMs and no set/delete/clear/load since returns v.
C7_SetThenGetReturnsValue ==
  [][/\ \A k \in Keys, v \in Values, t \in Time :
          SetStep(k, v, t) =>
            (HasKey(entries', k) /\ EntryOf(entries', k).value = v)
     /\ \A k \in Keys, t1 \in Time, t2 \in Time :
          ( /\ lastSet.none = FALSE
            /\ lastSet.key = k
            /\ lastSet.at <= t1
            /\ t1 < lastSet.at + ttlMs
            /\ GetStep(k, t1, t2) )
          => last'.out = lastSet.value]_vars

\* C7 amended: the same two statements for the runs in which the clock has
\* never read less than before (and no loaded entry was stamped later than
\* the clock): mono' covers every reading up to and including this step's.
C7_SetThenGetReturnsValueMonotoneClock ==
  [][/\ \A k \in Keys, v \in Values, t \in Time :
          (SetStep(k, v, t) /\ mono') =>
            (HasKey(entries', k) /\ EntryOf(entries', k).value = v)
     /\ \A k \in Keys, t1 \in Time, t2 \in Time :
          ( /\ lastSet.none = FALSE
            /\ lastSet.key = k
            /\ lastSet.at <= t1
            /\ t1 < lastSet.at + ttlMs
            /\ mono'
            /\ GetStep(k, t1, t2) )
          => last'.out = lastSet.value]_vars

\* C7 witness: under a clock that never stepped back, k2 was set at a time
\* later than 0 and the last operation, a get(k2), returned the value set.
C7_Witness ==
  /\ mono
  /\ last.op = "get"
  /\ lastSet.none = FALSE
  /\ lastSet.key = "k2"
  /\ last.key = "k2"
  /\ last.out = lastSet.value
  /\ lastSet.at > 0

\* C8: a set(k, v) at time now of a key already in the map keeps its
\* createdAt and writes value = v, updatedAt = accessedAt = now; a set of a
\* key not in the map writes createdAt = now; a get hit changes accessedAt
\* of the entry read and nothing else.  Writers to one key are ordered by
\* their set() calls, so the value is the last writer's.
C8_CreatedAtOnlyOnFirstInsert ==
  [][/\ \A k \in Keys, v \in Values, t \in Time :
          (SetStep(k, v, t) /\ HasKey(entries', k)) =>
            LET e == EntryOf(entries', k)
            IN  /\ e.value = v
                /\ e.updatedAt = t
                /\ e.accessedAt = t
                /\ e.createdAt = IF HasKey(entries, k)
                                 THEN EntryOf(entries, k).createdAt
                                 ELSE t
     /\ \A k \in Keys, v \in Values, t \in Time :
          (SetStep(k, v, t) /\ HasKey(entries, k)) => HasKey(entries', k)
     /\ \A k \in Keys, t1 \in Time, t2 \in Time :
          (GetStep(k, t1, t2) /\ last'.out # "undefined") =>
            /\ Len(entries') = Len(entries)
            /\ \A i \in 1..Len(entries) :
                 /\ entries'[i].key = entries[i].key
                 /\ entries'[i].value = entries[i].value
                 /\ entries'[i].createdAt = entries[i].createdAt
                 /\ entries'[i].updatedAt = entries[i].updatedAt
                 /\ (entries[i].key # k =>
                       entries'[i].accessedAt = entries[i].accessedAt)
                 /\ (entries[i].key = k => entries'[i].accessedAt = t2)]_vars

\* C8 witness: a second writer has just overwritten k1: the value is the
\* second writer's, createdAt is still the first writer's.
C8_Witness ==
  /\ last.op = "set"
  /\ last.key = "k1"
  /\ HasKey(entries, "k1")
  /\ EntryOf(entries, "k1").value = "v2"
  /\ EntryOf(entries, "k1").createdAt = 0
  /\ EntryOf(entries, "k1").updatedAt = 1

\* C9: get(k) returns the stored value iff an entry for k exists and
\* now < updatedAt + ttlMs; otherwise it returns undefined and k's entry is
\* not in the map when it returns.  has(k) decides the same way.
C9_ExpiredNeverReturned ==
  [][/\ \A k \in Keys, t1 \in Time, t2 \in Time :
          GetStep(k, t1, t2) =>
            IF HasKey(entries, k) /\ t1 < EntryOf(entries, k).updatedAt + ttlMs
            THEN last'.out = EntryOf(entries, k).value
            ELSE last'.out = "undefined" /\ ~HasKey(entries', k)
     /\ \A k \in Keys, t \in Time :
          HasStep(k, t) =>
            IF HasKey(entries, k) /\ t < EntryOf(entries, k).updatedAt + ttlMs
            THEN last'.out = "true" /\ HasKey(entries', k)
            ELSE last'.out = "false" /\ ~HasKey(entries', k)]_vars

\* C9 witness: a get found its key expired exactly at updatedAt + ttlMs,
\* deleted the entry and returned a miss.
C9_Witness ==
  /\ last.op = "get"
  /\ last.out = "undefined"
  /\ last.dropped
  /\ ~HasKey(entries, last.key)
  /\ mono
  /\ lastSet.none = FALSE
  /\ lastSet.key = last.key
  /\ lastNow = lastSet.at + ttlMs

(***************************************************************************)
(* Claims about BackendClient and OhMyNotionRouter.                        *)
(***************************************************************************)
\* RPCs the call has sent to the official child so far
RpcAttempts(c) ==
  Len(c.rpcs) + IF c.pc \in {"off_rpc1", "off_rpc2"} THEN 1 ELSE 0

\* the result callOfficialOrError gives for the request req: what the
\* official backend answered, or the error made from what callTool threw
OfficialOutcome(r, req) ==
  \/ r.from = "official" /\ r.req = req
  \/ r = toToolError("official backend call failed", req)

\* C1: a routed call invokes BackendClient.callTool at most once, sends at
\* most two RPCs and reconnects at most once; when the first RPC failed, the
\* transport was closed once and re-created once, the call was re-sent once
\* if the reconnect succeeded and not at all if it failed, and what the
\* re-sent call gave is what the router returns
C1_OneReconnectOneRetry ==
  call.mode # "reauth" =>
    /\ Len(call.offCalls) <= 1
    /\ RpcAttempts(call) <= 2
    /\ call.reconnects <= 1
    /\ (call.pc = "done" /\ call.rpcs # <<>> /\ call.rpcs[1] = "failed") =>
         /\ call.reconnects = 1
         /\ call.closes = 1
         /\ call.creates = 1
         /\ Len(call.rpcs) = IF call.rc = "ok" THEN 2 ELSE 1
         /\ IF call.rc = "ok" /\ call.rpcs[2] = "ok"
            THEN call.result.from = "official"
                 /\ call.result.req = Last(call.offCalls)
            ELSE call.result = toToolError("official backend call failed",
                                           Last(call.offCalls))

\* C1: a call whose first RPC failed, reconnected, and was answered on the
\* re-sent RPC
C1_Witness ==
  /\ call.pc = "done"
  /\ call.mode = "official"
  /\ call.rpcs = <<"failed", "ok">>
  /\ call.reconnects = 1
  /\ call.result.from = "official"

\* the fast call of a fast-then-official-same-name request has just settled
FastSettledSameName ==
  /\ call.pc = "fast"
  /\ call.mode = "fast-then-official-same-name"
  /\ call' # call

\* a fast-then-official-same-name request that called the official backend
\* has just finished
SameNameFallbackDone ==
  /\ call.pc # "done"
  /\ call'.pc = "done"
  /\ call'.mode = "fast-then-official-same-name"
  /\ call'.offCalls # <<>>

\* C2 (as stated): a usable fast result is returned without calling the
\* official backend; on an error or an empty read the official backend is
\* called once with the same name and arguments and its result is returned
C2_FastThenOfficial ==
  [][/\ FastSettledSameName =>
          LET r == call'.fastRes
          IN IF ~isErrorToolResult(r) /\ ~looksEmptyReadResult(r)
             THEN call'.pc = "done" /\ call'.result = r /\ call'.offCalls = <<>>
             ELSE call'.pc = "off_rpc1"
                  /\ call'.offCalls = <<Request(call.tool, call.args)>>
     /\ SameNameFallbackDone =>
          /\ call'.offCalls = <<Request(call.tool, call.args)>>
          /\ OfficialOutcome(call'.result, Request(call.tool, call.args))]_vars

\* C2 (amended): as C2, but on an error or an empty read the official
\* backend is called only if it lists the tool at that moment; if it does
\* not, the fast result is returned and the official backend is not called
C2_FastThenOfficialIfStillListed ==
  [][/\ FastSettledSameName =>
          LET r == call'.fastRes
          IN IF ~isErrorToolResult(r) /\ ~looksEmptyReadResult(r)
             THEN call'.pc = "done" /\ call'.result = r /\ call'.offCalls = <<>>
             ELSE IF official /\ call.tool \in offTools
             THEN call'.pc = "off_rpc1"
                  /\ call'.offCalls = <<Request(call.tool, call.args)>>
             ELSE call'.pc = "done" /\ call'.result = r /\ call'.offCalls = <<>>
     /\ SameNameFallbackDone =>
          /\ call'.offCalls = <<Request(call.tool, call.args)>>
          /\ OfficialOutcome(call'.result, Request(call.tool, call.args))]_vars

\* C2: a same-name request whose fast result was an empty read and whose
\* answer came from the official backend
C2_Witness ==
  /\ call.pc = "done"
  /\ call.mode = "fast-then-official-same-name"
  /\ looksEmptyReadResult(call.fastRes)
  /\ call.fastCalls = <<Request(call.tool, call.args)>>
  /\ call.offCalls = <<Request(call.tool, call.args)>>
  /\ call.result.from = "official"

\* C3: a request whose route mode is official never invokes the fast
\* backend and is sent to the official one under its own name and
\* arguments; every routed name that looks like a write or does not look
\* like a read has mode official
C3_OfficialModeNeverCallsFast ==
  /\ call.mode = "official" =>
       /\ call.fastCalls = <<>>
       /\ call.fastRes = NoResult
       /\ call.pc # "fast"
       /\ \A i \in 1..Len(call.offCalls) :
            call.offCalls[i] = Request(call.tool, call.args)
  /\ \A n \in DOMAIN routes :
       (looksWriteTool(n) \/ ~looksReadTool(n)) => routes[n].mode = "official"

\* C3: a finished request for a write-looking tool that the fast backend
\* lists too, answered by the official backend
C3_Witness ==
  /\ call.pc = "done"
  /\ call.mode = "official"
  /\ looksWriteTool(call.tool)
  /\ fast
  /\ call.tool \in fastTools
  /\ call.result.from = "official"

\* C4: when the router serves without the official backend, every route is
\* fast-only and the exposed tools are exactly the fast tools that look like
\* a read and not like a write
C4_DegradedExposesReadLookingFastTools ==
  (phase = "serving" /\ ~official) =>
    /\ exposedTools = {t \in fastTools : looksReadTool(t) /\ ~looksWriteTool(t)}
    /\ DOMAIN routes = exposedTools
    /\ \A n \in DOMAIN routes : routes[n] = RouteEntry("fast-only", n)

\* C4: the router serves without the official backend and a fast tool that
\* looks like a write is left out
C4_Witness ==
  /\ phase = "serving"
  /\ ~official
  /\ exposedTools # {}
  /\ \E t \in fastTools : looksWriteTool(t) /\ t \notin exposedTools

\* C5 (as stated): once start() has settled the router is Ready (both
\* connected), DegradedReadOnly (fast connected, official failed) or Dead
\* (neither connected, start() rejected)
C5_ReadyDegradedOrDead ==
  phase \in {"serving", "dead"} =>
    \/ phase = "serving" /\ fast /\ official
    \/ phase = "serving" /\ fast /\ ~official
    \/ phase = "dead" /\ ~fast /\ ~official

\* C5 (amended): once start() has settled both connects have settled, each
\* backend is in use iff its connect succeeded, and start() rejected iff
\* neither did; the router is Ready, DegradedReadOnly, official-only (fast
\* failed, official connected) or Dead
C5_SettledAfterBothConnects ==
  phase \in {"serving", "dead"} =>
    /\ fastConn \in {"ok", "failed"}
    /\ offConn \in {"ok", "failed"}
    /\ fast = (fastConn = "ok")
    /\ official = (offConn = "ok")
    /\ (phase = "dead") = (~fast /\ ~official)

\* C5: start() resolved with the fast backend failed and the official one
\* connected
C5_Witness ==
  /\ phase = "serving"
  /\ fastConn = "failed"
  /\ ~fast
  /\ official

(***************************************************************************)
(* Claims about the call path of MCPProxy.                                 *)
(***************************************************************************)
\* the stages consulted are in the order cache, sqlite, http
InStageOrder(trace) ==
  \A i, j \in 1..Len(trace) :
    i < j => StageRank(trace[i]) < StageRank(trace[j])

\* the request carries __mcpFastForceRefresh = true
Forced(c) == c.params.mcpFastForceRefresh = "boolean true"

\* the request names an operation on the read-only allowlist
Allowlisted(c) ==
  /\ c.pc # "idle"
  /\ findOperation(c.name) # NoOperation
  /\ isOperationAllowlisted(findOperation(c.name))

CallPathInOrder(c) ==
  /\ InStageOrder(c.trace)
  /\ Forced(c) => c.trace = <<"http">>
  /\ (~Forced(c) /\ responseCacheOn) => c.trace[1] = "cache"
  /\ (~Forced(c) /\ localAppCacheOn /\ Last(c.trace) = "http") =>
       c.trace[Len(c.trace) - 1] = "sqlite"
  /\ c.result.from = "cache" => c.trace = <<"cache">>
  /\ c.result.from = "sqlite" =>
       /\ Last(c.trace) = "sqlite"
       /\ c.sqlite \in ResponseData
       /\ c.result.value = toMcpToolResponse(c.sqlite)
  /\ c.sqlite \in {"null", "threw"} =>
       /\ Last(c.trace) = "http"
       /\ c.pc = "threw" => c.result.from = "none"
  /\ c.result.from \in {"http", "httpError"} => Last(c.trace) = "http"
  /\ c.pc = "http" => Last(c.trace) = "http"
  /\ c.pc = "sqlite" => Last(c.trace) = "sqlite"

\* C10: an allowlisted call consults the response cache, then the local
\* SQLite cache, then HTTP; a cache hit returns the cached value with no
\* later stage; SQLite data is returned without HTTP after being set() in
\* the response cache (when there is one), where it then is unless an entry
\* already there is stamped later than the clock reads; a SQLite null or
\* exception goes on to HTTP; with __mcpFastForceRefresh = true the only
\* stage is HTTP
C10_CacheSqliteHttpInOrder ==
  /\ [](Allowlisted(pcall) => CallPathInOrder(pcall))
  /\ [][/\ (pcall.pc = "idle" /\ pcall'.result.from = "cache") =>
            /\ HasKey(entries, pcall'.cacheKey)
            /\ pcall'.result.value = EntryOf(entries, pcall'.cacheKey).value
        /\ (pcall.pc = "http" /\ pcall'.pc = "threw") =>
            pcall'.result.from = "none"
        /\ (pcall.pc = "sqlite" /\ pcall'.result.from = "sqlite"
            /\ responseCacheOn) =>
            \E t \in Time :
              /\ entries' = CacheSet(entries, ttlMs, maxEntries,
                                     pcall.cacheKey, pcall'.result.value, t)
              /\ NotLaterThan(entries, t) =>
                   /\ HasKey(entries', pcall.cacheKey)
                   /\ EntryOf(entries', pcall.cacheKey).value =
                        pcall'.result.value]_vars

\* C10: a call that missed the response cache, had the SQLite read throw,
\* and was answered over HTTP
C10_Witness ==
  /\ pcall.pc = "done"
  /\ pcall.trace = <<"cache", "sqlite", "http">>
  /\ pcall.sqlite = "threw"
  /\ pcall.result.from = "http"
  /\ HasKey(entries, pcall.cacheKey)

\* an error result of the fast backend: isError is true
isErrorResponse(r) == r.from \in {"httpError", "blocked"}

\* the entry of key k is fresh whatever the clock reads
FreshAtAnyReading(es, ttl, k) == \A t \in Time : IsFresh(es, ttl, k, t)

\* the handler has settled the call right after an identical call (same
\* cache key, same forcing) ended in an HttpClientError
SettledAfterIdenticalFailure ==
  /\ pcall.pc \in {"done", "threw"}
  /\ pcall.prev.failed
  /\ pcall.cacheKey = pcall.prev.key
  /\ pcall.forceRefresh = pcall.prev.forced

\* a call that ends in an error result has made no set() on the response
\* cache, and no call on it at all when it was blocked or a forced refresh
ErrorResultMadeNoCacheWrite ==
  isErrorResponse(pcall.result) =>
    /\ \A i \in 1..Len(pcall.cacheOps) : pcall.cacheOps[i] # "set"
    /\ (pcall.forceRefresh \/ pcall.result.from = "blocked") =>
         pcall.cacheOps = <<>>

\* the step that ends a call in an error result leaves the entries, the file
\* and the pending saves as they are, and an HttpClientError always ends the
\* call in an error result
ErrorStepLeavesCacheAlone ==
  /\ (pcall.pc # "done" /\ pcall'.pc = "done"
      /\ isErrorResponse(pcall'.result)) =>
        /\ entries' = entries
        /\ file' = file
        /\ savesPending' = savesPending
  /\ (pcall.pc = "http" /\ pcall'.http = "HttpClientError") =>
        /\ pcall'.pc = "done"
        /\ pcall'.result.from = "httpError"

\* after a forced refresh failed, an unforced call for the same key finds
\* the entry that is fresh at any clock reading
ForcedFailureKeepsEntry ==
  (/\ pcall.pc = "idle"
   /\ pcall.prev.failed
   /\ pcall.prev.forced
   /\ pcall'.pc # "idle"
   /\ pcall'.cacheKey = pcall.prev.key
   /\ ~pcall'.forceRefresh
   /\ responseCacheOn
   /\ FreshAtAnyReading(entries, ttlMs, pcall.prev.key)) =>
     /\ pcall'.result.from = "cache"
     /\ pcall'.result.value = EntryOf(entries, pcall.prev.key).value

HttpInvoked(c) == c.pc = "http" \/ c.http # "none"

\* the cache key of the same request sent without the force-refresh field
UnforcedKey(c) ==
  buildResponseCacheKey(findOperation(c.name),
                        splitProxyCacheParams(Params(c.params.id, "absent"))
                          .sanitizedParams)

\* C12: for an allowlisted call carrying __mcpFastForceRefresh, the params
\* given to the HTTP client do not hold the field; the cache key is the key
\* of the same call without the field; the params the caller passed stay as
\* they were while the call is handled; and when a forced call succeeds over
\* an entry already there, set() is given the new response, and the entry,
\* unless evicted, holds that response with the created_at it had before
C12_ForceFieldStrippedBeforeKeyAndHttp ==
  /\ []((Allowlisted(pcall) /\ pcall.params.mcpFastForceRefresh # "absent") =>
          /\ HttpInvoked(pcall) =>
               pcall.sanitizedParams.mcpFastForceRefresh = "absent"
          /\ pcall.cacheKey = UnforcedKey(pcall))
  /\ [][/\ (pcall.pc # "idle" /\ pcall'.pc # "idle") =>
             pcall'.params = pcall.params
        /\ (/\ pcall.pc = "http"
            /\ pcall.forceRefresh
            /\ pcall'.result.from = "http"
            /\ responseCacheOn
            /\ HasKey(entries, UnforcedKey(pcall))) =>
             /\ \E t \in Time :
                  LET put == CacheSet(entries, ttlMs, maxEntries,
                                      UnforcedKey(pcall),
                                      pcall'.result.value, t)
                  IN /\ NotLaterThan(entries, t) =>
                          HasKey(put, UnforcedKey(pcall))
                     /\ \/ entries' = put
                        \/ /\ persistCacheToDisk
                           /\ \E t2 \in Time :
                                entries' = pruneMaxEntries(
                                             pruneExpired(put, ttlMs, t2),
                                             maxEntries)
             /\ HasKey(entries', UnforcedKey(pcall)) =>
                  /\ EntryOf(entries', UnforcedKey(pcall)).value =
                       pcall'.result.value
                  /\ EntryOf(entries', UnforcedKey(pcall)).createdAt =
                       EntryOf(entries, UnforcedKey(pcall)).createdAt]_vars

\* C12: a forced call was answered over HTTP and its response is in the
\* entry of the unforced key, which was created before it was last updated
C12_Witness ==
  /\ pcall.pc = "done"
  /\ pcall.forceRefresh
  /\ pcall.result.from = "http"
  /\ HasKey(entries, UnforcedKey(pcall))
  /\ EntryOf(entries, UnforcedKey(pcall)).value = pcall.result.value
  /\ EntryOf(entries, UnforcedKey(pcall)).createdAt <
       EntryOf(entries, UnforcedKey(pcall)).updatedAt

\* the names, canonical or alias, of the operations of the document that
\* are not on the read-only list under their method
BlockedNames ==
  {n \in Operations :
     /\ findOperation(n) # NoOperation
     /\ <<findOperation(n).operationId, findOperation(n).method>>
          \notin READ_OPERATION_METHODS}

\* C13: list_tools returns no name, canonical or alias, of an operation that
\* is not on the allowlist under its method; a call naming such an operation
\* is answered at once with the READ_ONLY_OPERATION_BLOCKED error result,
\* with no stage consulted, no call on the response cache, no SQLite query
\* and no HTTP request, and the variables of the response cache unchanged
C13_BlockedNeverListedNeverExecuted ==
  /\ [](/\ pcall.listed \cap BlockedNames = {}
        /\ (pcall.pc # "idle" /\ pcall.name \in BlockedNames) =>
             /\ pcall.pc = "done"
             /\ pcall.result.from = "blocked"
             /\ pcall.trace = <<>>
             /\ pcall.cacheOps = <<>>
             /\ pcall.sqlite = "none"
             /\ pcall.http = "none")
  /\ [][(pcall.pc = "idle" /\ pcall'.name \in BlockedNames) =>
          UNCHANGED <<cacheVars, savesPending>>]_vars

\* C13: list_tools has answered with the allowlisted tool only, and (in
\* another state) a write has been blocked when called by its alias
C13_Witness ==
  /\ pcall.pc = "done"
  /\ pcall.name \in BlockedNames \ CanonicalNames
  /\ pcall.result.from = "blocked"
  /\ Len(pcall.name) = MaxToolNameLength
  /\ findOperation(pcall.name).operationId = LongOperationId

\* the request the client made
Original(c) == Request(c.tool, c.args)

\* what tryOfficialReadBoost resolved to is worth returning
BoostUsable(c) ==
  /\ c.fastCalls # <<>>
  /\ ~isErrorToolResult(c.fastRes)
  /\ ~looksEmptyReadResult(c.fastRes)

\* the boost is over: the handler is past tryOfficialReadBoost
BoostSettled(c) == c.mode = "official-with-fast-boost" /\ c.pc \notin {"idle", "fast"}

\* C14: for a route in mode official-with-fast-boost, once the boost has
\* settled: if it gave a result that is neither an error nor an empty read,
\* that result is returned and the official backend is not called; in every
\* other case (no fast call made, error result, empty read) the official
\* backend is called once with the original tool name and arguments, and
\* what that call gives is what the router returns
C14_BoostResultOrOfficial ==
  BoostSettled(call) =>
    IF BoostUsable(call)
    THEN /\ call.pc = "done"
         /\ call.result = call.fastRes
         /\ call.result.from = "fast"
         /\ call.offCalls = <<>>
    ELSE /\ call.offCalls = <<Original(call)>>
         /\ call.pc = "done" => OfficialOutcome(call.result, Original(call))
         /\ ~fast => call.fastCalls = <<>>

\* C14: a boost that gave an empty read, after which the official backend
\* answered the original request
C14_Witness ==
  /\ call.pc = "done"
  /\ call.mode = "official-with-fast-boost"
  /\ call.fastCalls # <<>>
  /\ looksEmptyReadResult(call.fastRes)
  /\ call.offCalls = <<Original(call)>>
  /\ call.result.from = "official"

\* the id parameters of the fast equivalents of fetch, in the order of trial
FetchOrder ==
  <<"page_id", "database_id", "data_source_id", "block_id", "comment_id">>
FetchRank(param) == CHOOSE i \in 1..Len(FetchOrder) : FetchOrder[i] = param

\* a request for the fetch tool on a boost route
IsFetchBoost(c) ==
  /\ c.mode = "official-with-fast-boost"
  /\ normalizeToolName(c.tool) = <<"f", "e", "t", "c", "h">>

\* the fast equivalents of fetch that the fast backend has, in order
FetchEquivalents(id) ==
  SelectSeq(FetchOrder,
            LAMBDA prm : fastTools \cap
               (CASE prm = "page_id" ->
                       {T_API_retrieve_a_page, T_retrieve_a_page}
                  [] prm = "database_id" ->
                       {T_API_retrieve_a_database, T_retrieve_a_database}
                  [] prm = "data_source_id" ->
                       {T_API_retrieve_a_data_source, T_retrieve_a_data_source}
                  [] prm = "block_id" ->
                       {T_API_retrieve_a_block, T_retrieve_a_block}
                  [] prm = "comment_id" ->
                       {T_API_retrieve_a_comment, T_retrieve_a_comment}) # {})

RebuiltWithOfficial ==
  \/ phase # "serving" /\ phase' = "serving" /\ official'
  \/ /\ call.mode = "reauth"
     /\ call.pc = "rc_list"
     /\ call'.pc = "done"
     /\ call'.result.body = "reauth_triggered"

\* the tools of the fast backend when the table is built
FastListed == IF fast' THEN fastTools' ELSE {}

\* the mode the table is to give an official tool
ExpectedMode(n) ==
  IF n \notin FastListed
  THEN IF normalizeToolName(n) \in {<<"f", "e", "t", "c", "h">>,
                                    <<"s", "e", "a", "r", "c", "h">>,
                                    <<"g", "e", "t", "-", "u", "s", "e", "r", "s">>}
       THEN "official-with-fast-boost" ELSE "official"
  ELSE IF looksReadTool(n) /\ ~looksWriteTool(n)
       THEN "fast-then-official-same-name" ELSE "official"

\* the exposed tools are the official tools, each with the mode it is to get
ExposedAreOfficialWithModes ==
  /\ exposedTools' = offTools'
  /\ \A n \in exposedTools' :
       /\ n \in DOMAIN routes'
       /\ routes'[n] = RouteEntry(ExpectedMode(n), n)

\* C16 as stated: after buildRoutingTable() with the official backend
\* present, the exposed tools are exactly the official tools, each with the
\* mode its name and the fast tool list call for, and a tool that only the
\* fast backend has is neither exposed nor in the routes
C16_OfficialToolsOnlyExposedAndRoutable ==
  [][RebuiltWithOfficial =>
       /\ ExposedAreOfficialWithModes
       /\ \A n \in FastListed \ offTools' :
            n \notin exposedTools' /\ n \notin DOMAIN routes']_vars

\* C16 without the part that fails: a tool that only the fast backend has is
\* not exposed, and is in the routes only if it was before the table was
\* rebuilt
C16_OfficialToolsOnlyExposed ==
  [][RebuiltWithOfficial =>
       /\ ExposedAreOfficialWithModes
       /\ \A n \in FastListed \ offTools' :
            /\ n \notin exposedTools'
            /\ n \in DOMAIN routes' =>
                 n \in DOMAIN routes /\ routes'[n] = routes[n]]_vars

\* C16: the table was rebuilt after a reauth, the official backend lists a
\* boostable tool and a tool the fast backend has too
C16_Witness ==
  /\ call.pc = "done"
  /\ call.mode = "reauth"
  /\ call.result.body = "reauth_triggered"
  /\ official /\ fast
  /\ exposedTools = offTools
  /\ \E n \in exposedTools : routes[n].mode = "official-with-fast-boost"
  /\ \E n \in exposedTools : routes[n].mode = "fast-then-official-same-name"
  /\ \E n \in exposedTools : routes[n].mode = "official"

\* the files reauth for URL hash h is to delete: in a mcp-remote-* directory,
\* h_tokens.json, h_client_info.json, h_code_verifier.txt and h/tokens.json
ToBeCleared(f, h) ==
  /\ startsWith(f.dir, "mcp-remote-")
  /\ \/ /\ f.sub = ""
        /\ startsWith(f.name, h \o "_")
        /\ f.name \in {h \o "_tokens.json", h \o "_client_info.json",
                       h \o "_code_verifier.txt"}
     \/ f.sub = h /\ f.name = "tokens.json"

\* the step in which reauth clears the token cache
ReauthClearStep ==
  \E p \in Handlers : ops[p].pc = "ra_close" /\ ops'[p].pc = "rc_close"

\* C17: the step of reauth that clears the token cache removes exactly the
\* files of the URL hash in the mcp-remote-* directories (h_tokens.json,
\* h_client_info.json, h_code_verifier.txt, h/tokens.json); files of another
\* hash and files in other directories stay, and no other step of reauth,
\* or of anything else, removes or adds a file
C17_ReauthClearsOnlyHashFiles ==
  [][IF ReauthClearStep
     THEN tokenCache' =
            {f \in tokenCache : ~ToBeCleared(f, md5(OFFICIAL_MCP_URL))}
     ELSE tokenCache' = tokenCache]_vars

\* C17: a reauth has cleared a token cache that held files of the hash, of
\* another hash, and in a directory that is not mcp-remote-*; only the
\* latter two kinds are left
C17_Witness ==
  /\ \E p \in Handlers : ops[p].kind = "reauth" /\ ops[p].pc = "rc_list"
  /\ tokenCache =
       {TokenFile("mcp-cache", "", md5(OFFICIAL_MCP_URL) \o "_tokens.json"),
        TokenFile("mcp-remote-0.2.0", OtherHash, "tokens.json"),
        TokenFile("mcp-remote-0.1.37", "", OtherHash \o "_tokens.json")}

\* the callers with a request in flight on a transport of the client
RpcInFlight ==
  {p \in Callers : ops[p].pc \in {"rpc1", "rpc2", "list", "rc_list"}}

\* the callers waiting for an answer on transport i
Using(i) ==
  {p \in Callers :
     ops[p].on = i /\ ops[p].pc \in {"rpc1", "rpc2", "list", "rc_list",
                                     "connect", "rc_connect"}}

\* C18: at most one request is in flight on the official backend at any
\* time, and no reconnect or reauth closes a transport on which another
\* caller is waiting for an answer
C18_OneRpcInFlight ==
  /\ [](Cardinality(RpcInFlight) <= 1)
  /\ [][\A i \in 1..Len(spawned) :
          (spawned[i] = "started" /\ spawned'[i] = "closed"
           /\ officialRef' # "exited") =>
            \A q \in Using(i) : ops'[q] # ops[q]]_vars

\* C19: once a deadline has passed, its caller is no longer waiting, be it
\* for the connect or for the list_tools that follows it
C19_DeadlineUnblocksCaller ==
  \A p \in Callers :
    ops[p].timer = "fired" =>
      ops[p].pc \notin {"connect", "list", "rc_connect", "rc_list"}

\* C19 without the part that fails: the 30 s deadline covers the connect and
\* the list_tools of the initial connect, the deadlines of reconnect (10 s,
\* 120 s) cover the connect only
C19_DeadlineUnblocksConnect ==
  /\ [](\A p \in Callers :
          ops[p].timer = "fired" =>
            ops[p].pc \notin {"connect", "list", "rc_connect"})
  /\ [][\A p \in Callers :
          (ops[p].timer = "armed" /\ ops'[p].timer = "fired"
           /\ ops[p].pc \in {"connect", "list", "rc_connect"}) =>
            /\ ops'[p].pc \in {"failed", "idle"}
            /\ p = "start" => officialRef' = "null"]_vars

\* C19: the 30 s deadline passed before the initial connect and its
\* list_tools had finished, and start() goes on without the official backend
C19_Witness ==
  /\ ops["start"].pc = "failed"
  /\ ops["start"].timer = "fired"
  /\ officialRef = "null"

\* C20: every transport that was spawned and is not closed is the one the
\* client holds, and that client is the one the router holds or is
\* connecting, so that shutdown() will close it
C20_EveryTransportReleased ==
  \A i \in 1..Len(spawned) :
    spawned[i] = "started" =>
      i = transport /\ officialRef \in {"pending", "client"}

(***************************************************************************)
(* Claims about the errors of BackendClient and of the handlers.           *)
(***************************************************************************)
\* sub occurs in str
Contains(str, sub) ==
  \E i \in 1..(Len(str) + 1) :
    i + Len(sub) - 1 <= Len(str) /\ SubSeq(str, i, i + Len(sub) - 1) = sub

\* caller p's callTool failed, and so did the reconnect that followed
CallAndReconnectFailed(p) ==
  raised[p].firstError # "" /\ raised[p].reconnectError # ""

SettledUnknownTool ==
  pcall.pc \in {"done", "threw"} /\ pcall.result.from # "list"
  /\ findOperation(pcall.name) = NoOperation

\* C22 as stated: a call of the fast backend whose name resolves to no
\* operation returns an error result (isError true) as a value and raises
\* no exception
C22_UnknownToolReturnsErrorResult ==
  SettledUnknownTool =>
    pcall.pc = "done" /\ isErrorResponse(pcall.result)

\* C22, amended: a call of the fast backend whose name resolves to no
\* operation raises an exception (Method <name> not found) and returns no
\* result; the handler has then consulted neither the response cache, nor
\* SQLite, nor HTTP.  An error result as a value is what a call of a known
\* operation outside the allowlist gets
C22_UnknownToolThrows ==
  /\ SettledUnknownTool =>
       /\ pcall.pc = "threw"
       /\ pcall.result = ProxyResult("none", "")
       /\ pcall.trace = <<>> /\ pcall.cacheOps = <<>>
  /\ (pcall.pc = "done" /\ pcall.result.from = "blocked") =>
       findOperation(pcall.name) # NoOperation

\* C22: the handler has thrown for the name "no-such-operation"
C22_Witness ==
  pcall.pc = "threw" /\ pcall.name = "no-such-operation"

\* the awaits the router's CallTool handler can be parked at
HandlerAwaits ==
  {"fast", "off_rpc1", "off_rpc2", "rc_close", "rc_connect", "rc_list",
   "ra_close"}

\* the call met a failure that nothing made up for: the tool is unknown, the
\* backend it needs is absent, reconnect or reauth failed, the last RPC to
\* the official backend was rejected, or the fast backend failed or threw
\* and the official one was not asked
CallFailed(c) ==
  \/ c.mode = "none"
  \/ c.rc = "failed"
  \/ c.rpcs # <<>> /\ Last(c.rpcs) = "failed"
  \/ c.mode = "reauth" /\ c.closes = 0
  \/ c.mode = "official" /\ c.offCalls = <<>>
  \/ c.offCalls = <<>> /\ c.fastRes.from = "router"

\* C23: the router's CallTool handler is always idle, parked at an await or
\* done, never rejected; when it is done it has returned a tool result, and
\* that result has isError = true whenever the call failed (unknown tool,
\* absent backend, exception of either backend, failed reconnect, failed
\* reauth)
C23_HandlerAlwaysReturnsResult ==
  /\ call.pc \in HandlerAwaits \cup {"idle", "done"}
  /\ call.pc = "done" =>
       /\ call.result.from \in {"router", "fast", "official"}
       /\ CallFailed(call) => call.result.isError = TRUE

\* C23: a call whose reconnect failed has returned an error result
C23_Witness ==
  /\ call.pc = "done"
  /\ call.why = "retry" /\ call.rc = "failed"
  /\ call.result.isError = TRUE

\* degraded mode: the router serves without the official backend
Degraded == phase = "serving" /\ ~official

\* the call is for a tool that needs the official backend: the reauth tool
\* or a name the fast backend does not serve as a read
NeedsOfficial(c) ==
  c.tool # NoTool /\ c.tool \notin exposedTools

\* the call has made no use of the official backend: no request, no
\* reconnect, no close and no new transport
NoOfficialUse(c) ==
  /\ c.offCalls = <<>> /\ c.rpcs = <<>>
  /\ c.reconnects = 0 /\ c.closes = 0 /\ c.creates = 0

\* C24 as stated: in degraded mode a call of a tool that needs the official
\* backend returns an error result that reports the backend as unavailable,
\* and no reconnect or retry is attempted
C24_DegradedReportsUnavailable ==
  (Degraded /\ call.pc = "done" /\ NeedsOfficial(call)) =>
    /\ call.result.isError = TRUE
    /\ call.result.body = "official backend is unavailable"
    /\ NoOfficialUse(call)

\* C24, amended: in degraded mode a call of a tool that needs the official
\* backend is answered at once with an error result, "Unknown tool" because
\* the routing table has no entry for it ("Cannot reauth" for the reauth
\* tool), and no call in degraded mode makes any request, reconnect or
\* retry on the official backend
C24_DegradedReportsUnknownTool ==
  Degraded =>
    /\ NoOfficialUse(call)
    /\ NeedsOfficial(call) =>
         /\ call.pc = "done"
         /\ call.result.isError = TRUE
         /\ call.result.body =
              IF call.tool = REAUTH_TOOL_NAME THEN "Cannot reauth"
              ELSE "Unknown tool"
         /\ call.fastCalls = <<>>

\* C24: in degraded mode the write tool notion-create-pages was called and
\* got an error result
C24_Witness ==
  /\ Degraded
  /\ call.pc = "done"
  /\ call.tool = T_notion_create_pages
  /\ call.result.isError = TRUE

(***************************************************************************)
(* Claims about NotionAppSqliteCache.                                      *)
(***************************************************************************)
\* the last query was get-block-children and resolved with a list
ChildrenListed ==
  /\ localQuery.asked
  /\ localQuery.operationId = "get-block-children"
  /\ localQuery.response.object = "list"

\* children of the parent remain after the slice the response emitted: the
\* slice starts after the cursor, or at the first child without one
ChildrenRemain ==
  LET q == localQuery
      start == IF q.params.start_cursor.given
               THEN indexOf(q.childIds,
                            normalizePageOrBlockId(q.params.start_cursor.value))
               ELSE 0
  IN start + Len(q.response.results) < Len(q.childIds)

\* has_more = true implies next_cursor is the id of the last result, and
\* has_more = false implies next_cursor = null
CursorMatchesHasMore ==
  LET r == localQuery.response
  IN IF r.has_more
     THEN r.results # <<>> /\ r.next_cursor = r.results[Len(r.results)].id
     ELSE r.next_cursor = NoId

\* C25 as stated: in every get-block-children response of the SQLite fast
\* path, has_more = true implies next_cursor is the id of the last result,
\* has_more = false implies next_cursor = null, and has_more is true iff
\* children of the parent remain after the emitted slice
C25_CursorAndHasMore ==
  ChildrenListed =>
    /\ CursorMatchesHasMore
    /\ localQuery.response.has_more <=> ChildrenRemain

\* C25 without the part that fails: the cursor matches has_more in every
\* response, has_more = true only if children remain, and has_more is true
\* iff children remain whenever the page size is at least 1
C25_CursorAndHasMoreForWholePages ==
  ChildrenListed =>
    /\ CursorMatchesHasMore
    /\ localQuery.response.has_more => ChildrenRemain
    /\ pageSizeOf(localQuery.params.page_size, localConfig.maxPageSize) >= 2
         => (ChildrenRemain => localQuery.response.has_more)

\* C25: a first page of two children was emitted and a third child remains:
\* the response has has_more = true and the second child's id as next_cursor
C25_Witness ==
  /\ ChildrenListed
  /\ localQuery.response.has_more
  /\ Len(localQuery.response.results) = 2
  /\ localQuery.response.next_cursor = Child2
  /\ localQuery.params.start_cursor = NoCursor

\* the operations the SQLite fast path supports
SupportedLocalOperations ==
  {"retrieve-a-page", "retrieve-a-block", "get-block-children"}

\* C26: a query runs SQL only when the enabled flag and the trust flag are
\* both true, the operation is a supported one and its id parameter
\* normalizes to an id; in every other case no SQL is executed and the
\* query gives null, which sends the call on to HTTP
C26_SqlOnlyWhenEnabledAndTrusted ==
  localQuery.asked =>
    /\ localQuery.sql # <<>> =>
         /\ localConfig.requestedEnabled /\ localConfig.trustEnabled
         /\ localQuery.operationId \in SupportedLocalOperations
         /\ normalizePageOrBlockId(localQuery.params.id) # NoId
    /\ ~(localConfig.requestedEnabled /\ localConfig.trustEnabled) =>
         localQuery.sql = <<>> /\ localQuery.response = NullResponse

\* C26: with the cache requested but not trusted, retrieve-a-block was
\* asked for a block that is in the table, and no SQL was run
C26_Witness ==
  /\ localQuery.asked
  /\ localConfig.requestedEnabled /\ ~localConfig.trustEnabled
  /\ localQuery.operationId = "retrieve-a-block"
  /\ localQuery.params.id = Child1
  /\ selectLatest(blockTable.rows, Child1) # <<>>
  /\ localQuery.sql = <<>>

\* two parameter trees are structurally equal up to the order of object keys
\* at any depth
RECURSIVE EqUpToKeyOrder(_, _)
EqUpToKeyOrder(a, b) ==
  /\ a.t = b.t
  /\ a.v = b.v
  /\ Len(a.kids) = Len(b.kids)
  /\ IF a.t = "array"
     THEN \A i \in 1..Len(a.kids) : EqUpToKeyOrder(a.kids[i].n, b.kids[i].n)
     ELSE \A i \in 1..Len(a.kids) :
            \E j \in 1..Len(b.kids) :
              /\ a.kids[i].k = b.kids[j].k
              /\ EqUpToKeyOrder(a.kids[i].n, b.kids[j].n)

\* two operations are the same request: method (in any letter case), path
\* and operation id
SameOperation(a, b) ==
  /\ toUpperCase(a.method) = toUpperCase(b.method)
  /\ a.path = b.path
  /\ a.operationId = b.operationId

\* C27: createCacheKey gives two calls the same key exactly when their
\* operations are the same and their parameter trees are structurally equal
\* up to the order of object keys at any depth; a different value, a
\* different array order or a different operation gives a different key.
C27_KeyInvariantUnderKeyOrder ==
  keys.by = "createCacheKey" =>
    (keys.key[1] = keys.key[2]
       <=> /\ SameOperation(keys.operation[1], keys.operation[2])
           /\ EqUpToKeyOrder(keys.params[1], keys.params[2]))

\* C27 witness: two trees holding the same members in another key order, at
\* the top and inside "filter", got the same key for the same operation.
C27_Witness ==
  /\ keys.by = "createCacheKey"
  /\ keys.operation[1] = keys.operation[2]
  /\ keys.params[1] # keys.params[2]
  /\ EqUpToKeyOrder(keys.params[1], keys.params[2])
  /\ Len(keys.params[1].kids) = 2
  /\ keys.params[1].kids[1].k = "pageSize"
  /\ keys.params[2].kids[1].k = "filter"
  /\ keys.params[2].kids[1].n.kids[1].k = "tags"
  /\ keys.key[1] = keys.key[2]

\* the value of a header in the request a proxy sends: HTTP header names
\* match in any letter case
sentHeader(headers, name) ==
  LET hits == SelectSeq(headers, LAMBDA h : toUpperCase(h.k) = toUpperCase(name))
  IN IF hits = <<>> THEN "" ELSE Last(hits).n.v

\* two proxies send another authorization header or API version, or call
\* another base URL
OtherCredentialOrEndpoint ==
  \/ sentHeader(keys.headers[1], "Authorization")
       # sentHeader(keys.headers[2], "Authorization")
  \/ sentHeader(keys.headers[1], "Notion-Version")
       # sentHeader(keys.headers[2], "Notion-Version")
  \/ keys.baseUrl[1] # keys.baseUrl[2]

\* the headers are named as buildAuthFingerprint reads them
NamedAsRead(headers) ==
  \A i \in 1..Len(headers) :
    headers[i].k \in {"Authorization", "authorization",
                      "Notion-Version", "notion-version"}

\* C28: two proxies that send a different authorization header or API
\* version, or call a different base URL, never build the same response-cache
\* key for the same operation and parameters.
C28_OtherCredentialOtherKey ==
  (keys.by = "buildResponseCacheKey" /\ OtherCredentialOrEndpoint)
    => keys.key[1] # keys.key[2]

\* C28, as the code has it: the keys differ when the base URLs differ, and
\* when the authorization header or API version differ in headers named
\* Authorization / authorization and Notion-Version / notion-version.
C28_OtherKeyForHeadersNamedAsRead ==
  (keys.by = "buildResponseCacheKey" /\ OtherCredentialOrEndpoint)
    => \/ keys.key[1] # keys.key[2]
       \/ /\ keys.baseUrl[1] = keys.baseUrl[2]
          /\ ~(NamedAsRead(keys.headers[1]) /\ NamedAsRead(keys.headers[2]))

\* C28 witness: two proxies with the same base URL and API version and
\* another Authorization header built different keys for the same call.
C28_Witness ==
  /\ keys.by = "buildResponseCacheKey"
  /\ keys.baseUrl[1] = keys.baseUrl[2]
  /\ NamedAsRead(keys.headers[1]) /\ NamedAsRead(keys.headers[2])
  /\ headerOr(keys.headers[1], "Authorization", "") = "Bearer A"
  /\ headerOr(keys.headers[2], "Authorization", "") = "Bearer B"
  /\ sentHeader(keys.headers[1], "Notion-Version")
       = sentHeader(keys.headers[2], "Notion-Version")
  /\ keys.key[1] # keys.key[2]


\* a raw entry of the file is well formed: a string key and three finite
\* numbers
WellFormedRaw(r) ==
  /\ r.key.type = "string"
  /\ r.createdAt.type = "number" /\ r.createdAt.finite
  /\ r.updatedAt.type = "number" /\ r.updatedAt.finite
  /\ r.accessedAt.type = "number" /\ r.accessedAt.finite

\* the file is JSON of the current version with an array of entries
WellFormedFile(f) ==
  f.kind = "json" /\ f.version = CACHE_FORMAT_VERSION /\ f.isArray

\* the positions of the file's entries that count: well formed, and the last
\* one written for their key
CountedRaw(f) ==
  {i \in 1..Len(f.entries) :
     /\ WellFormedRaw(f.entries[i])
     /\ \A j \in (i + 1)..Len(f.entries) :
          WellFormedRaw(f.entries[j]) => f.entries[j].key.s # f.entries[i].key.s}

\* the counted entries of the file that have not expired at time t
UnexpiredRaw(f, ttl, t) ==
  {i \in CountedRaw(f) : f.entries[i].updatedAt.n + ttl > t}

\* the cache holds entry i of the file as the file has it
HoldsRaw(es, r) ==
  \E n \in 1..Len(es) :
    es[n] = CacheEntry(r.key.s, r.value, r.createdAt.n, r.updatedAt.n,
                       r.accessedAt.n)

\* the cache holds only unexpired counted entries of the file, each key once,
\* and as many of them as maxEntries allows
HoldsExactly(es, f, ttl, cap, t) ==
  /\ \A n \in 1..Len(es) :
       \E i \in UnexpiredRaw(f, ttl, t) :
         es[n] = CacheEntry(f.entries[i].key.s, f.entries[i].value,
                            f.entries[i].createdAt.n, f.entries[i].updatedAt.n,
                            f.entries[i].accessedAt.n)
  /\ \A n \in 1..Len(es), m \in 1..Len(es) : es[n].key = es[m].key => n = m
  /\ Len(es) = Min(Cardinality(UnexpiredRaw(f, ttl, t)), cap)
  /\ \A i \in UnexpiredRaw(f, ttl, t) :
       HoldsRaw(es, f.entries[i])
         \/ \A n \in 1..Len(es) : f.entries[i].accessedAt.n <= es[n].accessedAt

\* a step of load()
LoadStep == last'.op = "load" /\ file' = file

\* C29: load() rejects for no content of the file: an absent file leaves the
\* cache as it is, invalid JSON, another version or entries that are no array
\* leave it empty, and a well-formed file leaves exactly its well-formed,
\* unexpired entries, at most maxEntries of them (unexpired at the time load()
\* read the clock, which lastNow holds while the clock has run forward).
C29_LoadSurfacesNoContentError ==
  [][LoadStep =>
       /\ last'.out = "threw" <=> file.kind = "unreadable"
       /\ file.kind \in {"absent", "unreadable"} => entries' = entries
       /\ (file.kind \in {"garbage", "json"} /\ ~WellFormedFile(file))
            => entries' = <<>>
       /\ WellFormedFile(file)
            => \E t \in Time : HoldsExactly(entries', file, ttlMs, maxEntries, t)
       /\ (WellFormedFile(file) /\ mono')
            => HoldsExactly(entries', file, ttlMs, maxEntries, lastNow')]_vars

\* C29 witness: load() returned on a well-formed file whose entries are in
\* part malformed, and the cache holds an entry of it.
C29_Witness ==
  /\ last.op = "load"
  /\ last.out = "void"
  /\ WellFormedFile(file)
  /\ \E i \in 1..Len(file.entries) : ~WellFormedRaw(file.entries[i])
  /\ entries # <<>>
  /\ \E t \in Time : HoldsExactly(entries, file, ttlMs, maxEntries, t)


\* two parent environments agree on every allowlisted variable
AgreeOnAllowlist(e1, e2) ==
  \A k \in SAFE_CHILD_ENV_KEYS :
    /\ k \in DOMAIN e1 <=> k \in DOMAIN e2
    /\ k \in DOMAIN e1 => e1[k] = e2[k]

\* env is the allowlisted variables of the parent overridden by the extras
AllowlistedPlusExtras(env, parent, extras) ==
  /\ DOMAIN env = (DOMAIN parent \cap SAFE_CHILD_ENV_KEYS) \cup DOMAIN extras
  /\ \A k \in DOMAIN env :
       env[k] = IF k \in DOMAIN extras THEN extras[k] ELSE parent[k]

\* C30: the env given to the official child process, on the initial connect
\* and on every reconnect, is the parent's allowlisted variables overridden
\* by the extras of the backend's spec, and is the same in whatever the
\* parent environment holds outside the allowlist.
C30_ChildEnvIsAllowlistPlusExtras ==
  /\ Len(childEnvs) = Len(spawned)
  /\ \A i \in 1..Len(childEnvs) :
       /\ AllowlistedPlusExtras(childEnvs[i], parentEnv, officialEnv)
       /\ \A other \in ParentEnvs :
            AgreeOnAllowlist(parentEnv, other)
              => childEnvs[i] = buildChildEnv(other, officialEnv)

\* C30 witness: the router runs with MY_SECRET set, the spec overrides PATH,
\* and the child of a reconnect got the spec's PATH and no MY_SECRET.
C30_Witness ==
  /\ Len(childEnvs) >= 2
  /\ "MY_SECRET" \in DOMAIN parentEnv
  /\ "PATH" \in DOMAIN officialEnv
  /\ parentEnv["PATH"] # officialEnv["PATH"]
  /\ childEnvs[Len(childEnvs)]["PATH"] = officialEnv["PATH"]
  /\ childEnvs[Len(childEnvs)]["HOME"] = parentEnv["HOME"]
  /\ "MY_SECRET" \notin DOMAIN childEnvs[Len(childEnvs)]


\* the environment holds a value that is no boolean word, no positive
\* integer, or a path with a null byte
InvalidEnabled(env) == env.enabled \in {"maybe", "2"}
InvalidTtl(env) == env.ttlMs \in {"0", "-1", "1.5", "soon"}
InvalidMaxEntries(env) == env.maxEntries \in {"0", "many"}
InvalidPath(env) == env.path = "/tmp/cache" \o NullByte \o "evil"

\* the variable of the first invalid value, in the order parseCacheConfig
\* reads them
FirstInvalid(env) ==
  IF InvalidEnabled(env) THEN CACHE_ENABLED_ENV
  ELSE IF InvalidTtl(env) THEN CACHE_TTL_MS_ENV
  ELSE IF InvalidMaxEntries(env) THEN CACHE_MAX_ENTRIES_ENV
  ELSE IF InvalidPath(env) THEN CACHE_PATH_ENV
  ELSE ""

\* C31: an invalid boolean-like value falls back to the default; an invalid
\* TTL or max-entries value or a path with a null byte raises a startup error
\* naming the variable, which reaches the caller and is not swallowed.
C31_InvalidValueDefaultsOrFailsStartup ==
  fastStartup.ran =>
    /\ InvalidEnabled(fastStartup.env)
         => /\ ~fastStartup.parsed.threw
            /\ fastStartup.parsed.value.enabled = DEFAULT_CACHE_CONFIG.enabled
    /\ (~InvalidEnabled(fastStartup.env) /\ FirstInvalid(fastStartup.env) # "")
         => /\ ~fastStartup.constructed
            /\ includes(fastStartup.thrown, FirstInvalid(fastStartup.env))

\* C31, as the code has it: parseCacheConfig throws for the first invalid
\* value, a boolean-like one too, with a message naming its variable;
\* the constructor catches it, warns with it and starts without a response
\* cache, and nothing is thrown to its caller.  With no invalid value the
\* proxy starts with the cache as configured.
C31_InvalidValueThrowsAndProxyStartsWithoutCache ==
  fastStartup.ran =>
    /\ fastStartup.constructed /\ fastStartup.thrown = ""
    /\ FirstInvalid(fastStartup.env) # ""
         => /\ fastStartup.parsed.threw
            /\ includes(fastStartup.parsed.message, FirstInvalid(fastStartup.env))
            /\ fastStartup.warned = fastStartup.parsed.message
            /\ ~fastStartup.cache.on
    /\ FirstInvalid(fastStartup.env) = ""
         => /\ ~fastStartup.parsed.threw
            /\ fastStartup.warned = ""
            /\ fastStartup.cache.on = fastStartup.parsed.value.enabled

\* C31 witness: with NOTION_MCP_FAST_CACHE_TTL_MS = "0" and a valid enabled
\* flag the proxy was constructed, warned with the error naming the variable
\* and has no response cache.
C31_Witness ==
  /\ fastStartup.constructed
  /\ fastStartup.env.ttlMs = "0"
  /\ fastStartup.env.enabled = "true"
  /\ includes(fastStartup.warned, CACHE_TTL_MS_ENV)
  /\ ~fastStartup.cache.on


\* the step ends the buildRoutingTable() of start()
FirstBuild == phase # "serving" /\ phase' = "serving"

\* the step ends the buildRoutingTable() of a reauth that reconnected
RebuildAfterReauth ==
  /\ call.mode = "reauth"
  /\ call.pc = "rc_list"
  /\ call'.pc = "done"
  /\ call'.result.body = "reauth_triggered"

\* C32: after every buildRoutingTable(), the first one and each one after a
\* reauth, the keys of the route table are the names of the exposed tools.
C32_RouteKeysAreExposedNames ==
  [][(FirstBuild \/ RebuildAfterReauth) => DOMAIN routes' = exposedTools']_vars

\* C32, as the code has it: after every buildRoutingTable() every exposed
\* name has a route; after the first one the route keys are the exposed
\* names; after a rebuild a route key that is not exposed is a route of the
\* table before, left as it was.
C32_ExposedNamesHaveRoutesOthersAreOld ==
  [][(FirstBuild \/ RebuildAfterReauth) =>
       /\ exposedTools' \subseteq DOMAIN routes'
       /\ FirstBuild => DOMAIN routes' = exposedTools'
       /\ \A n \in (DOMAIN routes') \ exposedTools' :
            n \in DOMAIN routes /\ routes'[n] = routes[n]]_vars

\* C32 witness: a reauth reconnected to an official backend that lists fewer
\* tools; the table was rebuilt, every exposed tool has a route and a route
\* of a tool no longer exposed is still there.
C32_Witness ==
  /\ call.pc = "done"
  /\ call.mode = "reauth"
  /\ call.result.body = "reauth_triggered"
  /\ exposedTools = offTools
  /\ exposedTools \subseteq DOMAIN routes
  /\ (DOMAIN routes) \ exposedTools # {}


\* the step is one of a reauth in progress
InReauth ==
  /\ call.mode = "reauth" /\ call'.mode = "reauth"
  /\ call.pc # "done"
  /\ call' # call

\* the steps of a reauth follow one another in this order: close, token
\* files, the close and the new transport of reconnect(), connect, listTools
ReauthInOrder ==
  /\ call.pc = "ra_close"
       => /\ call'.pc = "rc_close"
          /\ call.closes = 0 /\ call.cleared = 0 /\ call.creates = 0
          /\ call'.closes = 1 /\ call'.cleared = 1 /\ call'.creates = 0
  /\ call.pc = "rc_close"
       => /\ call'.pc = "rc_connect"
          /\ call.cleared = 1 /\ call'.cleared = 1
          /\ call'.creates = 1
  /\ call.pc = "rc_connect" => call'.pc \in {"rc_list", "done"}
  /\ call.pc = "rc_list" => call'.pc = "done"

\* during a reauth only its own steps touch the routing table
TableKeptOutsideReauthSteps ==
  (call.mode = "reauth" /\ call.pc # "done" /\ call' = call)
    => (routes' = routes /\ exposedTools' = exposedTools)

\* C33: a reauth closes the transport, then deletes the token files, then
\* reconnects; the route table is rebuilt only by the step in which the
\* reconnect succeeded, and a reauth whose reconnect failed returns a
\* "Reauth failed" error result and has left the routes and the exposed
\* tools as they were.
C33_ReauthInOrderRebuildOnlyOnSuccess ==
  [][/\ TableKeptOutsideReauthSteps
     /\ InReauth =>
       /\ ReauthInOrder
       /\ (routes' # routes \/ exposedTools' # exposedTools)
            => /\ call.pc = "rc_list" /\ call'.pc = "done"
               /\ call'.rc = "ok"
               /\ call'.result.body = "reauth_triggered"
       /\ (call'.pc = "done" /\ call'.rc = "failed")
            => /\ call'.result.isError
               /\ call'.result.body = "Reauth failed"
               /\ routes' = routes /\ exposedTools' = exposedTools
       /\ (call'.pc = "done") => call'.rc \in {"ok", "failed"}]_vars

\* C33 witness: a reauth closed the transport, cleared the token files and
\* created a new transport, its reconnect failed, and it returned
\* "Reauth failed" with the table built at start still in place.
C33_Witness ==
  /\ call.pc = "done"
  /\ call.mode = "reauth"
  /\ call.closes = 2 /\ call.cleared = 1 /\ call.creates = 1
  /\ call.rc = "failed"
  /\ call.result.isError /\ call.result.body = "Reauth failed"
  /\ exposedTools # {}
  /\ DOMAIN routes = exposedTools

\* the file the target path names, <<"absent">> when there is none
targetContent ==
  IF saveFs.target = NoInode THEN <<"absent">> ELSE saveFs.inodes[saveFs.target]

\* content is the whole payload of one save() that made a payload
CompleteSnapshot(content) ==
  \E s \in SaveIds :
    /\ saveFs.saves[s].blocks > 0
    /\ content = Payload(s, saveFs.saves[s].blocks)

\* the target path holds what it held before the run (a file, or none)
HoldsPrevious == targetContent \in {<<"absent">>, PreviousContent}

\* C34: under any interleaving of the save() calls of one process the target
\* path holds its previous content or the whole payload of one save(), never
\* a part of one or a mix of two.
C34_TargetIsPreviousOrOneSnapshot ==
  HoldsPrevious \/ CompleteSnapshot(targetContent)

\* C34, as the code has it: while no save() has opened the temp path between
\* another save()'s open and rename, the target path holds its previous
\* content or the whole payload of one save(); and a save() past its rename
\* has given the target path a file.
C34_TargetIsPreviousOrOneSnapshotWhenSavesDoNotOverlap ==
  /\ ~saveFs.overlapped => (HoldsPrevious \/ CompleteSnapshot(targetContent))
  /\ \A s \in SaveIds :
       saveFs.saves[s].pc \in {"chmod", "done"} => saveFs.target # NoInode

\* C34 witness: two save() calls were started together, neither opened the
\* temp path inside the other's window, both are done and the target path
\* holds the whole payload of one of them.
C34_Witness ==
  /\ ~saveFs.overlapped
  /\ \A s \in SaveIds : saveFs.saves[s].pc = "done"
  /\ CompleteSnapshot(targetContent)
  /\ Len(saveFs.inodes) >= 2

\* the keys stored in es
KeysOf(es) == {es[i].key : i \in 1..Len(es)}

\* the keys a set(k) at now must not drop as expired: k itself and the keys
\* whose entry was updated less than ttlMs before now
LiveAfterPut(k, now) ==
  {k} \cup {j \in KeysOf(entries) : now < EntryOf(entries, j).updatedAt + ttlMs}

\* (accessedAt, updatedAt, createdAt) of j's entry once set(k) at now has
\* written k's entry
StampsAfterPut(j, k, now) ==
  IF j = k
  THEN <<now, now, IF HasKey(entries, k) THEN EntryOf(entries, k).createdAt ELSE now>>
  ELSE <<EntryOf(entries, j).accessedAt, EntryOf(entries, j).updatedAt,
         EntryOf(entries, j).createdAt>>

\* a comes before b in lexicographic order
LexLess(a, b) ==
  \E i \in 1..Len(a) : a[i] < b[i] /\ \A j \in 1..(i - 1) : a[j] = b[j]

\* C35: when set() leaves more than maxEntries entries once the expired ones
\* are pruned, exactly size - maxEntries of them are evicted, and no evicted
\* entry comes after a kept one in the order of (accessedAt, updatedAt,
\* createdAt); at or below capacity nothing but the expired entries goes.
C35_EvictsExactlyTheOverflowSmallestFirst ==
  [][\A k \in Keys, v \in Values, t \in Time :
       SetStep(k, v, t) =>
         LET live == LiveAfterPut(k, t)
             kept == KeysOf(entries')
         IN  /\ kept \subseteq live
             /\ Len(entries') = Cardinality(kept)
             /\ IF Cardinality(live) <= maxEntries
                THEN kept = live
                ELSE /\ Cardinality(live \ kept) = Cardinality(live) - maxEntries
                     /\ \A e \in live \ kept, f \in kept :
                          ~LexLess(StampsAfterPut(f, k, t), StampsAfterPut(e, k, t))]_vars

\* C35 witness: a set(k2) whose clock read less than k1's stamps has just
\* returned: k2 itself was the smallest entry and is the one evicted.
C35_Witness ==
  /\ last.op = "set"
  /\ last.key = "k2"
  /\ HasKey(entries, "k1")
  /\ ~HasKey(entries, "k2")
  /\ Len(entries) = maxEntries

\* entry e of the map before the step is in the map after it with the same
\* value and the same updatedAt
KeepsWrite(e) ==
  HasKey(entries', e.key) =>
    /\ EntryOf(entries', e.key).value = e.value
    /\ EntryOf(entries', e.key).updatedAt = e.updatedAt

\* C39: reads never extend an entry's lifetime: get and has leave value and
\* updatedAt of every entry as the set() wrote them, and a get(k) that
\* returns a value after set(k, v) at time t, whatever get and has came in
\* between, returns v and reads the clock less than ttlMs after t.
C39_ReadsNeverExtendLifetime ==
  [][/\ \A k \in Keys, t1 \in Time, t2 \in Time :
          GetStep(k, t1, t2) =>
            /\ \A i \in 1..Len(entries) : KeepsWrite(entries[i])
            /\ ( /\ lastSet.none = FALSE
                 /\ lastSet.key = k
                 /\ last'.out # "undefined" )
               => /\ last'.out = lastSet.value
                  /\ t1 < lastSet.at + ttlMs
     /\ \A k \in Keys, t \in Time :
          HasStep(k, t) => \A i \in 1..Len(entries) : KeepsWrite(entries[i])]_vars

\* C39 witness: a get of the key set at 0 returned the value set and stamped
\* accessedAt = 1, while updatedAt is still the set's 0.
C39_Witness ==
  /\ mono
  /\ lastSet.none = FALSE
  /\ lastSet.at = 0
  /\ last = Did("get", lastSet.key, lastSet.value, FALSE)
  /\ HasKey(entries, lastSet.key)
  /\ EntryOf(entries, lastSet.key).updatedAt = lastSet.at
  /\ EntryOf(entries, lastSet.key).accessedAt = lastSet.at + ttlMs

\* the last query was get-block-children on a database that can be read, and
\* the parent's row was found with a content array of ids
ParentResolved ==
  /\ localQuery.asked
  /\ localQuery.operationId = "get-block-children"
  /\ localConfig.enabled
  /\ blockTable.readable
  /\ normalizePageOrBlockId(localQuery.params.id) # NoId
  /\ selectLatest(blockTable.rows, normalizePageOrBlockId(localQuery.params.id)) # <<>>
  /\ selectLatest(blockTable.rows,
                  normalizePageOrBlockId(localQuery.params.id))[1].content.isArray
  /\ \A i \in 1..Len(localQuery.childIds) : localQuery.childIds[i] # NoId

\* start_cursor was given and is not an id of the parent's content
CursorUnknown ==
  /\ localQuery.params.start_cursor.given
  /\ indexOf(localQuery.childIds,
             normalizePageOrBlockId(localQuery.params.start_cursor.value)) = 0

\* the positions of the parent's content the request asks for: pageSize of
\* them after the cursor
RequestedSlice ==
  LET q == localQuery
      start == IF q.params.start_cursor.given
               THEN indexOf(q.childIds,
                            normalizePageOrBlockId(q.params.start_cursor.value))
               ELSE 0
      size == pageSizeOf(q.params.page_size, localConfig.maxPageSize) \div 2
  IN {i \in 1..Len(q.childIds) : start < i /\ i <= start + size}

\* the latest row of id passes the validation of a child row
HasValidRow(id) ==
  /\ \E i \in 1..Len(blockTable.rows) : blockTable.rows[i].id = id
  /\ LET first == CHOOSE i \in 1..Len(blockTable.rows) :
                    /\ blockTable.rows[i].id = id
                    /\ \A j \in 1..(i - 1) : blockTable.rows[j].id # id
         row == blockTable.rows[first]
     IN /\ trimEnd(trimStart(row.type)) # ""
        /\ row.properties # "invalid"
        /\ row.content.isArray

ChildrenAfterCursor ==
  LET q == localQuery
      start == IF q.params.start_cursor.given
               THEN indexOf(q.childIds,
                            normalizePageOrBlockId(q.params.start_cursor.value))
               ELSE 0
  IN Len(q.childIds) - start

\* the last query resolved the parent and gave a list
PageListed == ParentResolved /\ localQuery.response.object = "list"

\* page_size clamped into [1, max_page_size], in halves; max_page_size when
\* the request has no number
ClampedPageSize ==
  LET ps == localQuery.params.page_size
      top == 2 * localConfig.maxPageSize
  IN IF ps.type # "number" THEN top
     ELSE IF ps.halves < 2 THEN 2
     ELSE IF ps.halves > top THEN top
     ELSE ps.halves

\* C38 as stated: the page holds as many children as page_size clamped into
\* [1, max_page_size] allows (max_page_size when page_size is absent), so a
\* response has between 1 and max_page_size results whenever children remain
\* after the cursor.
C38_PageSizeClampedIntoOneToMax ==
  PageListed =>
    /\ localQuery.params.page_size.type # "string" =>
         Len(localQuery.response.results)
           = Min(ClampedPageSize \div 2, ChildrenAfterCursor)
    /\ ChildrenAfterCursor > 0 =>
         /\ 1 <= Len(localQuery.response.results)
         /\ Len(localQuery.response.results) <= localConfig.maxPageSize

\* C38, as the code has it: no page is longer than max_page_size; a
\* page_size of at least 1 is clamped from above, and the page is not empty
\* when children remain; an absent page_size and one that is not a positive
\* number give max_page_size.
C38_PageSizeBoundedAboveDefaultWhenNotPositive ==
  PageListed =>
    LET ps == localQuery.params.page_size
        n == Len(localQuery.response.results)
        top == localConfig.maxPageSize
    IN  /\ n <= top
        /\ (ps.type = "number" /\ ps.halves >= 2) =>
             /\ n = Min(Min(ps.halves, 2 * top) \div 2, ChildrenAfterCursor)
             /\ ChildrenAfterCursor > 0 => n >= 1
        /\ (ps.type = "undefined" \/ (ps.type = "number" /\ ps.halves <= 0)
              \/ ps = StringPageSize("many")) =>
             n = Min(top, ChildrenAfterCursor)
        /\ ps = StringPageSize("2") => n = Min(Min(2, top), ChildrenAfterCursor)

\* C38 witness: page_size = 3 was asked of a parent with three children
\* under max_page_size = 2, and the page has two results.
C38_Witness ==
  /\ PageListed
  /\ localQuery.params.page_size = NumberPageSize(6)
  /\ localQuery.params.start_cursor = NoCursor
  /\ localConfig.maxPageSize = 2
  /\ Len(localQuery.childIds) = 3
  /\ Len(localQuery.response.results) = 2

\* the parent's content as the walk's calls read it
WalkContent == contentIds(blockTable, ParentId)

\* the page size of the walk is absent, not a number, not positive, or at
\* least 1
WholePages ==
  ~(/\ walk.page_size.type = "number"
    /\ 0 < walk.page_size.halves
    /\ walk.page_size.halves < 2)

\* no id is twice in ids
NoRepeats(ids) ==
  \A i \in 1..Len(ids), j \in 1..Len(ids) : ids[i] = ids[j] => i = j

\* C37 as stated: a walk that starts without a cursor and follows next_cursor
\* over an unchanged parent ends after finitely many calls, and when it ends
\* with has_more = false the pages taken together are the parent's content.
C37_WalkEndsAndCoversContent ==
  /\ [](walk.pc = "done" => walk.taken = WalkContent)
  /\ (walk.pc = "walking" ~> walk.pc # "walking")

\* C37, as the code has it: the same for the walks whose page size is not a
\* number between 0 and 1 and whose parent names no child twice; such a walk
\* has taken a proper prefix of the content while more is announced, makes
\* no more calls than the parent has children (one for a childless parent),
\* and ends with has_more = false or with a null answer.
C37_WalkOfWholePagesEndsAndCoversContent ==
  /\ []((WholePages /\ NoRepeats(WalkContent)) =>
          /\ walk.pc = "done" =>
               /\ walk.taken = WalkContent
               /\ walk.calls <= (IF WalkContent = <<>> THEN 1 ELSE Len(WalkContent))
          /\ walk.pc = "walking" =>
               /\ Len(walk.taken) < Len(WalkContent)
               /\ walk.taken = SubSeq(WalkContent, 1, Len(walk.taken))
               /\ walk.calls <= Len(walk.taken)
               /\ walk.cursor = Cursor(walk.taken[Len(walk.taken)]))
  /\ ((walk.pc = "walking" /\ WholePages /\ NoRepeats(WalkContent))
        ~> walk.pc \in {"done", "declined"})

\* C37 witness: a walk with page_size = 1 over a parent with three children
\* has ended after three calls with the three children in order.
C37_Witness ==
  /\ walk.pc = "done"
  /\ walk.page_size = NumberPageSize(2)
  /\ walk.calls = 3
  /\ walk.taken = <<Child1, Child2, Child3>>
  /\ WalkContent = walk.taken

\* params without its member named key
withoutMember(params, key) ==
  JObj(SelectSeq(params.kids, LAMBDA m : m.k # key))

\* the two calls of one proxy ask for the same operation with the same
\* sanitized parameters
SameRequest ==
  /\ SameOperation(keys.operation[1], keys.operation[2])
  /\ EqUpToKeyOrder(keys.params[1], keys.params[2])

\* C40 as stated: two calls of the fast backend whose operation or whose
\* sanitized parameters differ never get the same response-cache key,
\* whatever parameter names the caller sends, __mcpFastContext included.
C40_OtherRequestOtherKey ==
  keys.by = "callTool" =>
    (keys.key[1] = keys.key[2] => SameRequest)

\* C40, as the code has it: two calls get the same key exactly when their
\* operations are the same and their sanitized parameters are equal once a
\* member named __mcpFastContext is set aside.
C40_OtherRequestOtherKeyUpToTheReservedName ==
  keys.by = "callTool" =>
    (keys.key[1] = keys.key[2]
       <=> /\ SameOperation(keys.operation[1], keys.operation[2])
           /\ EqUpToKeyOrder(withoutMember(keys.params[1], CACHE_CONTEXT_KEY),
                             withoutMember(keys.params[2], CACHE_CONTEXT_KEY)))

\* C40 witness: a call with query = "a" and a call of the same operation
\* with query = "b" and a parameter named __mcpFastContext got two keys.
C40_Witness ==
  /\ keys.by = "callTool"
  /\ keys.operation[1] = keys.operation[2]
  /\ keys.params[1] = JObj(<<Member("query", JStr("a"))>>)
  /\ keys.params[2] = JObj(<<Member(CACHE_CONTEXT_KEY, JStr("x")),
                             Member("query", JStr("b"))>>)
  /\ keys.key[1] # keys.key[2]

====
